---- MODULE Spec2Model ----
(***************************************************************************)
(* Model of the owner-statement PDF parser, src/src/utils/ownerPacketParser.js. *)
(*                                                                         *)
(* Text is a sequence of one-character strings, so that the parser's       *)
(* substring tests, regular expressions and conversions are computed       *)
(* character by character as the code computes them.  Money is counted in  *)
(* cents (the statement prints two decimals); coordinates handed over by   *)
(* the PDF layer are in tenths of a unit and rounded as the code rounds    *)
(* them.                                                                   *)
(***************************************************************************)
EXTENDS Integers, Sequences, FiniteSets, TLC

(***************************************************************************)
(* Characters                                                              *)
(***************************************************************************)
Digits == <<"0","1","2","3","4","5","6","7","8","9">>

UpperCase == <<"A","B","C","D","E","F","G","H","I","J","K","L","M","N","O","P","Q","R","S","T","U","V","W","X","Y","Z">>

LowerCase == <<"a","b","c","d","e","f","g","h","i","j","k","l","m","n","o","p","q","r","s","t","u","v","w","x","y","z">>

Range(s) == { s[i] : i \in DOMAIN s }

DigitChars == Range(Digits)

UpperChars == Range(UpperCase)

\* \w of a JavaScript regular expression
WordChars == Range(UpperCase) \cup Range(LowerCase) \cup DigitChars \cup {"_"}

\* \s of a JavaScript regular expression, as far as the statements use it
WhiteSpace == {" ", "\t", "\n"}

\* the en dash of the patterns [-–]
EnDash == "endash"

DashChars == {"-", EnDash}

IndexOf(seq, c) == CHOOSE i \in DOMAIN seq : seq[i] = c

DigitVal(c) == IndexOf(Digits, c) - 1

LowerChar(c) == IF c \in UpperChars THEN LowerCase[IndexOf(UpperCase, c)] ELSE c

(***************************************************************************)
(* String.prototype methods used by the parser                             *)
(***************************************************************************)
toLowerCase(s) == [i \in 1..Len(s) |-> LowerChar(s[i])]

matchesAt(s, sub, k) ==
  /\ k + Len(sub) <= Len(s)
  /\ \A j \in 1..Len(sub) : s[k + j] = sub[j]

includes(s, sub) == \E k \in 0..(Len(s) - Len(sub)) : matchesAt(s, sub, k)

startsWith(s, sub) == matchesAt(s, sub, 0)

endsWith(s, sub) == Len(sub) <= Len(s) /\ matchesAt(s, sub, Len(s) - Len(sub))

RECURSIVE trimStart(_)
trimStart(s) == IF s # <<>> /\ Head(s) \in WhiteSpace THEN trimStart(Tail(s)) ELSE s

RECURSIVE trimEnd(_)
trimEnd(s) ==
  IF s # <<>> /\ s[Len(s)] \in WhiteSpace THEN trimEnd(SubSeq(s, 1, Len(s) - 1)) ELSE s

trim(s) == trimEnd(trimStart(s))

\* s.replace(/[...]/g, '') for a character class
removeChars(s, class) == SelectSeq(s, LAMBDA c : c \notin class)

padStart2(s) == IF Len(s) < 2 THEN <<"0">> \o s ELSE s

RECURSIVE join(_, _)
join(parts, sep) ==
  IF parts = <<>> THEN <<>>
  ELSE IF Len(parts) = 1 THEN parts[1]
  ELSE parts[1] \o sep \o join(Tail(parts), sep)

\* length of the longest prefix of s, read from position from, made of class
RECURSIVE runLength(_, _, _)
runLength(s, from, class) ==
  IF from <= Len(s) /\ s[from] \in class THEN 1 + runLength(s, from + 1, class) ELSE 0

\* a\s*b somewhere in s (both already lower-cased for the /i patterns)
matchesGap(s, a, b) ==
  \E k \in 0..(Len(s) - Len(a)) :
    /\ matchesAt(s, a, k)
    /\ matchesAt(s, b, k + Len(a) + runLength(s, k + Len(a) + 1, WhiteSpace))

(***************************************************************************)
(* Numbers.  parseFloat yields NaN or a number; a number is kept in cents. *)
(***************************************************************************)
NaN == [isNaN |-> TRUE, v |-> 0]

Num(v) == [isNaN |-> FALSE, v |-> v]

RECURSIVE digitsValue(_)
digitsValue(ds) ==
  IF ds = <<>> THEN 0 ELSE 10 * digitsValue(SubSeq(ds, 1, Len(ds) - 1)) + DigitVal(ds[Len(ds)])

\* the fraction digits as cents; digits past the second are below a cent
fractionCents(fs) ==
  IF fs = <<>> THEN 0
  ELSE IF Len(fs) = 1 THEN 10 * DigitVal(fs[1])
  ELSE 10 * DigitVal(fs[1]) + DigitVal(fs[2])

\* parseFloat: leading white space, a sign, digits, a fraction; the rest is ignored
floatValue(negative, u, n, m) ==
  IF n = 0 /\ m = 0 THEN NaN
  ELSE IF negative
  THEN Num(-(100 * digitsValue(SubSeq(u, 1, n)) + fractionCents(SubSeq(u, n + 2, n + 1 + m))))
  ELSE Num(100 * digitsValue(SubSeq(u, 1, n)) + fractionCents(SubSeq(u, n + 2, n + 1 + m)))

floatFraction(negative, u, n) ==
  floatValue(negative, u, n,
             IF n < Len(u) /\ u[n + 1] = "." THEN runLength(u, n + 2, DigitChars) ELSE 0)

floatSigned(t) ==
  IF t # <<>> /\ t[1] \in {"-", "+"}
  THEN floatFraction(t[1] = "-", Tail(t), runLength(Tail(t), 1, DigitChars))
  ELSE floatFraction(FALSE, t, runLength(t, 1, DigitChars))

parseFloat(s) == floatSigned(trimStart(s))

negate_identity(f) == f

negate(f) == IF f.isNaN THEN NaN ELSE Num(-f.v)

\* f || 0
orZero(f) == IF f.isNaN THEN 0 ELSE f.v

distance_signed(a, b) == a - b

\* Math.abs(a - b)
distance(a, b) == IF a < b THEN b - a ELSE a - b

\* Math.round of a coordinate given in tenths: the nearest unit, halves upward
round(tenths) == (tenths + 5) \div 10

(***************************************************************************)
(* Field interpreters                                                      *)
(***************************************************************************)
moneyOfCleaned(cleaned) ==
  IF startsWith(cleaned, <<"(">>) /\ endsWith(cleaned, <<")">>)
  THEN orZero(negate(parseFloat(SubSeq(cleaned, 2, Len(cleaned) - 1))))
  ELSE orZero(parseFloat(cleaned))

parseMoney(str) ==
  IF str = <<>> THEN 0 ELSE moneyOfCleaned(removeChars(str, {"$", ","} \cup WhiteSpace))

\* /[\d,]+\.\d{2}/ matched at position k (the run of [\d,] starts there)
amountRunAt(s, k) ==
  LET n == runLength(s, k, DigitChars \cup {","})
  IN  /\ n >= 1
      /\ k + n + 2 <= Len(s)
      /\ s[k + n] = "."
      /\ s[k + n + 1] \in DigitChars
      /\ s[k + n + 2] \in DigitChars

hasAmountRun(s) == \E k \in 1..Len(s) : amountRunAt(s, k)

\* the leftmost match, with the parenthesis or minus sign before it
firstAmountRun_signed(s) ==
  LET k == CHOOSE k \in 1..Len(s) :
             amountRunAt(s, k) /\ \A j \in 1..(k - 1) : ~amountRunAt(s, j)
  IN  IF k > 1 /\ s[k - 1] \in {"(", "-"}
      THEN <<"-">> \o SubSeq(s, k, k + runLength(s, k, DigitChars \cup {","}) + 2)
      ELSE SubSeq(s, k, k + runLength(s, k, DigitChars \cup {","}) + 2)

\* s.match(/[\d,]+\.\d{2}/)[0]: the leftmost match
firstAmountRun(s) ==
  LET k == CHOOSE k \in 1..Len(s) :
             amountRunAt(s, k) /\ \A j \in 1..(k - 1) : ~amountRunAt(s, j)
  IN  SubSeq(s, k, k + runLength(s, k, DigitChars \cup {","}) + 2)

\* /\([\d,]+\.\d{2}\)/
hasParenAmount(s) ==
  \E k \in 1..Len(s) :
    /\ s[k] = "("
    /\ amountRunAt(s, k + 1)
    /\ LET e == k + 1 + runLength(s, k + 1, DigitChars \cup {","}) + 3
       IN  e <= Len(s) /\ s[e] = ")"

\* /\$?\s*[\d,]+\.\d{2}/ || /\([\d,]+\.\d{2}\)/
hasMoneyAmount(text) == hasAmountRun(text) \/ hasParenAmount(text)

\* /^[\$\(\-]?\s*[\d,]+\.\d{2}\)?$/ on the text with its white space removed
dropLead(t) == IF t # <<>> /\ t[1] \in {"$", "(", "-"} THEN Tail(t) ELSE t

dropClose(a) == IF a # <<>> /\ a[Len(a)] = ")" THEN SubSeq(a, 1, Len(a) - 1) ELSE a

\* [\d,]+\.\d{2} and nothing else
isAmountDigits(b) ==
  /\ Len(b) >= 4
  /\ runLength(b, 1, DigitChars \cup {","}) = Len(b) - 3
  /\ b[Len(b) - 2] = "."
  /\ b[Len(b) - 1] \in DigitChars
  /\ b[Len(b)] \in DigitChars

isMoneyText(text) == isAmountDigits(dropClose(dropLead(removeChars(text, WhiteSpace))))

\* the groups of /^(\d{1,2})[\/\-](\d{1,2})[\/\-](\d{2,4})$/, separated by seps:
\* a, b and c are the lengths of the three digit runs
dateGroupsOf(s, seps, a, b, c) ==
  IF /\ a \in 1..2
     /\ a + 1 <= Len(s) /\ s[a + 1] \in seps
     /\ b \in 1..2
     /\ a + b + 2 <= Len(s) /\ s[a + b + 2] \in seps
     /\ c \in 2..4
     /\ a + b + c + 2 = Len(s)
  THEN << SubSeq(s, 1, a), SubSeq(s, a + 2, a + b + 1), SubSeq(s, a + b + 3, Len(s)) >>
  ELSE <<>>

dateGroupsFrom(s, seps, a, b) ==
  dateGroupsOf(s, seps, a, b, runLength(s, a + b + 3, DigitChars))

dateGroupsAfter(s, seps, a) ==
  dateGroupsFrom(s, seps, a, runLength(s, a + 2, DigitChars))

dateGroups(s, seps) == dateGroupsAfter(s, seps, runLength(s, 1, DigitChars))

\* /^\d{4}-\d{2}-\d{2}$/
isIsoDate(s) ==
  /\ Len(s) = 10
  /\ \A k \in 1..10 : IF k \in {5, 8} THEN s[k] = "-" ELSE s[k] \in DigitChars

\* the ISO date of the groups month, day, year
\* day and month exchanged
isoOfGroups_dayFirst(mdy) ==
  (IF Len(mdy[3]) = 2 THEN <<"2", "0">> \o mdy[3] ELSE mdy[3])
    \o <<"-">> \o padStart2(mdy[2]) \o <<"-">> \o padStart2(mdy[1])

isoOfGroups(mdy) ==
  (IF Len(mdy[3]) = 2 THEN <<"2", "0">> \o mdy[3] ELSE mdy[3])
    \o <<"-">> \o padStart2(mdy[1]) \o <<"-">> \o padStart2(mdy[2])

dateOfTrimmed(trimmed, mdy) ==
  IF mdy # <<>> THEN isoOfGroups(mdy)
  ELSE IF isIsoDate(trimmed) THEN trimmed
  ELSE <<>>

parseDate(str) ==
  IF str = <<>> THEN <<>> ELSE dateOfTrimmed(trim(str), dateGroups(trim(str), {"/", "-"}))

\* /^\d{1,2}\/\d{1,2}\/\d{2,4}$/
isRawDate(s) == dateGroups(s, {"/"}) # <<>>

(***************************************************************************)
(* extractPageRows: the fragments of a page grouped into rows              *)
(***************************************************************************)
\* stable sort by an integer key (Array.prototype.sort with a - b)
sortByKey_unsorted(seq, keys) == seq

\* keys[k] is the key of seq[k]
sortByKey(seq, keys) ==
  LET n == Len(seq)
      pos(i) == 1 + Cardinality({ j \in 1..n :
                       \/ keys[j] < keys[i]
                       \/ keys[j] = keys[i] /\ j < i })
  IN  [p \in 1..n |-> seq[CHOOSE i \in 1..n : pos(i) = p]]

\* the x of each item of a row
xsOf(row) == [k \in 1..Len(row) |-> row[k].x]

\* the tolerance of the row grouping
YTolerance == 3

\* .filter(item => item.str.trim()).map(...)
pageItems(rawItems) ==
  LET kept == SelectSeq(rawItems, LAMBDA it : trim(it.str) # <<>>)
  IN  [k \in 1..Len(kept) |->
         [ text  |-> trim(kept[k].str),
           x     |-> round(kept[k].tx),
           y     |-> round(kept[k].ty),
           width |-> kept[k].width ]]

\* the Map of rows, in insertion order: a sequence of [key, items]
RECURSIVE groupByY(_, _)
groupByY(items, rowMap) ==
  IF items = <<>> THEN rowMap
  ELSE LET item == Head(items)
           near == { k \in 1..Len(rowMap) : distance(rowMap[k].key, item.y) <= YTolerance }
       IN  IF near = {}
           THEN groupByY(Tail(items), Append(rowMap, [key |-> item.y, items |-> <<item>>]))
           ELSE LET k == CHOOSE k \in near : \A j \in near : k <= j
                IN  groupByY(Tail(items),
                             [rowMap EXCEPT ![k].items = Append(@, item)])

extractPageRows(rawItems) ==
  LET rowMap == groupByY(pageItems(rawItems), <<>>)
      sorted == sortByKey(rowMap, [k \in 1..Len(rowMap) |-> -rowMap[k].key])
  IN  [k \in 1..Len(sorted) |-> sortByKey(sorted[k].items, xsOf(sorted[k].items))]

(***************************************************************************)
(* rowToText: a row as one string, gaps as tabs and spaces                 *)
(***************************************************************************)
\* the thresholds taken inclusively
RECURSIVE rowToTextFrom_inclusive(_, _, _)
rowToTextFrom_inclusive(row, result, lastEnd) ==
  IF row = <<>> THEN result
  ELSE LET item == Head(row)
           gap == item.x - lastEnd
           sep == IF gap >= 15 /\ Len(result) > 0 THEN <<"\t">>
                  ELSE IF gap >= 5 /\ Len(result) > 0 THEN <<" ">>
                  ELSE <<>>
           right == item.x + (IF item.width # 0 THEN item.width ELSE Len(item.text) * 5)
       IN  rowToTextFrom_inclusive(Tail(row), result \o sep \o item.text, right)

RECURSIVE rowToTextFrom(_, _, _)
rowToTextFrom(row, result, lastEnd) ==
  IF row = <<>> THEN result
  ELSE LET item == Head(row)
           gap == item.x - lastEnd
           sep == IF gap > 15 /\ Len(result) > 0 THEN <<"\t">>
                  ELSE IF gap > 5 /\ Len(result) > 0 THEN <<" ">>
                  ELSE <<>>
           right == item.x + (IF item.width # 0 THEN item.width ELSE Len(item.text) * 5)
       IN  rowToTextFrom(Tail(row), result \o sep \o item.text, right)

rowToText(row) == IF Len(row) = 0 THEN <<>> ELSE rowToTextFrom(row, <<>>, 0)

\* rows.map(r => rowToText(r)).join(sep)
rowsText(rows, sep) == join([k \in 1..Len(rows) |-> rowToText(rows[k])], sep)

(***************************************************************************)
(* extractPropertyAddress                                                  *)
(***************************************************************************)
Null == [isNull |-> TRUE]

Min(a, b) == IF a < b THEN a ELSE b

\* the position after the run of class that starts at p
skip(text, p, class) == p + runLength(text, p, class)

\* \s*[-–] from position p: the position of the dash, or 0
dashAfter(text, p) ==
  IF skip(text, p, WhiteSpace) <= Len(text) /\ text[skip(text, p, WhiteSpace)] \in DashChars
  THEN skip(text, p, WhiteSpace)
  ELSE 0

\* \s*(.+) after the second dash d2: where group 2 starts, or 0
groupAfter(text, d2) ==
  IF d2 = 0 \/ d2 >= Len(text) THEN 0
  ELSE Min(skip(text, d2 + 1, WhiteSpace), Len(text))

\* \w+\s*[-–]\s*(.+) from position w
wordTailAt(text, w) ==
  IF runLength(text, w, WordChars) = 0 THEN 0
  ELSE groupAfter(text, dashAfter(text, skip(text, w, WordChars)))

\* \s*(\w+...) after the first dash d1
dashWordAt(text, d1) ==
  IF d1 = 0 THEN 0 ELSE wordTailAt(text, skip(text, d1 + 1, WhiteSpace))

\* /\s*[-–]\s*\w+\s*[-–]\s*(.+)/ matched from position p of text: the position
\* where group 2 starts, or 0 when there is no match
dashTailAt(text, p) == dashWordAt(text, dashAfter(text, p))

\* text.match(/^(.+?)\s*[-–]\s*\w+\s*[-–]\s*(.+)/): the shortest group 1 that matches
hasDashPattern(text) == \E L \in 1..Len(text) : dashTailAt(text, L + 1) > 0

dashPattern(text) ==
  LET L == CHOOSE L \in 1..Len(text) :
             dashTailAt(text, L + 1) > 0 /\ \A j \in 1..(L - 1) : dashTailAt(text, j + 1) = 0
  IN  [ shortAddress |-> trim(SubSeq(text, 1, L)),
        fullAddress  |-> trim(SubSeq(text, dashTailAt(text, L + 1), Len(text))) ]

StreetSuffixes ==
  << <<"s","t">>, <<"r","d">>, <<"a","v","e">>, <<"d","r">>, <<"l","n">>, <<"c","t">>, <<"b","l","v","d">>, <<"w","a","y">>, <<"p","l">>, <<"c","i","r">>,
     <<"l","o","o","p">>, <<"p","k","w","y">> >>

\* /^\d+\s+\w/ and the street-suffix pattern, case-insensitive
looksLikeAddress(text) ==
  LET n == runLength(text, 1, DigitChars)
      s == runLength(text, n + 1, WhiteSpace)
  IN  /\ n >= 1
      /\ s >= 1
      /\ n + s + 1 <= Len(text)
      /\ text[n + s + 1] \in WordChars
      /\ \E k \in DOMAIN StreetSuffixes : includes(toLowerCase(text), StreetSuffixes[k])

\* text.split(/[-–,]/)[0]
beforeFirstSplit(text) == SubSeq(text, 1, runLength(text, 1, Range(text) \ (DashChars \cup {","})))

\* the earliest row that matches either pattern decides
extractPropertyAddress_rowByRow(rows) ==
  LET hitRows == { i \in 1..Min(Len(rows), 8) :
                     \/ hasDashPattern(rowToText(rows[i]))
                     \/ i <= 6 /\ looksLikeAddress(rowToText(rows[i])) }
      first(S) == CHOOSE i \in S : \A j \in S : i <= j
  IN  IF hitRows = {} THEN Null
      ELSE LET text == rowToText(rows[first(hitRows)])
           IN  IF hasDashPattern(text) THEN dashPattern(text)
               ELSE [ shortAddress |-> trim(beforeFirstSplit(text)), fullAddress |-> text ]

extractPropertyAddress(rows) ==
  LET dashRows == { i \in 1..Min(Len(rows), 8) : hasDashPattern(rowToText(rows[i])) }
      fallRows == { i \in 1..Min(Len(rows), 6) : looksLikeAddress(rowToText(rows[i])) }
      first(S) == CHOOSE i \in S : \A j \in S : i <= j
  IN  IF dashRows # {} THEN dashPattern(rowToText(rows[first(dashRows)]))
      ELSE IF fallRows # {}
      THEN LET text == rowToText(rows[first(fallRows)])
           IN  [ shortAddress |-> trim(beforeFirstSplit(text)), fullAddress |-> text ]
      ELSE Null

(***************************************************************************)
(* parsePropertyPage: the cash summary block                               *)
(***************************************************************************)
\* the CashSummary fields whose label pattern matches the row text
summaryLabels(summaryText) ==
  LET s == toLowerCase(summaryText)
  IN  { f \in { "beginningBalance", "cashIn", "cashOut", "managementFees",
                "ownerDisbursements", "endingBalance" } :
          \/ f = "beginningBalance" /\ matchesGap(s, <<"b","e","g","i","n","n","i","n","g">>, <<"c","a","s","h">>)
          \/ f = "cashIn" /\ matchesGap(s, <<"c","a","s","h">>, <<"i","n">>) /\ ~matchesGap(s, <<"c","a","s","h">>, <<"o","u","t">>)
          \/ f = "cashOut" /\ matchesGap(s, <<"c","a","s","h">>, <<"o","u","t">>)
          \/ f = "managementFees" /\ matchesGap(s, <<"m","a","n","a","g","e","m","e","n","t">>, <<"f","e","e">>)
          \/ f = "ownerDisbursements" /\ matchesGap(s, <<"o","w","n","e","r">>, <<"d","i","s","b","u","r","s","e">>)
          \/ f = "endingBalance" /\ matchesGap(s, <<"e","n","d","i","n","g">>, <<"c","a","s","h">>) }

\* the rows j..last after the "Property Cash Summary" row, folded into cashSummary
RECURSIVE scanSummary(_, _, _, _)
scanSummary(rows, j, last, cashSummary) ==
  IF j > last THEN cashSummary
  ELSE LET summaryText == rowToText(rows[j])
           found == IF hasAmountRun(summaryText)
                    THEN [f \in summaryLabels(summaryText) |->
                            parseMoney(firstAmountRun(summaryText))]
                    ELSE [f \in {} |-> 0]
       IN  scanSummary(rows, j + 1, last, found @@ cashSummary)

\* the scan reaching one row further
cashSummaryAfter_tenRows(rows, i, cashSummary) ==
  scanSummary(rows, i + 1, Min(i + 10, Len(rows)), cashSummary)

\* the summary scan started by row i: rows i+1 .. min(i+9, rows.length)
cashSummaryAfter(rows, i, cashSummary) ==
  scanSummary(rows, i + 1, Min(i + 9, Len(rows)), cashSummary)

isSummaryMarker(textLower) == includes(textLower, <<"p","r","o","p","e","r","t","y"," ","c","a","s","h"," ","s","u","m","m","a","r","y">>)

isTableHeader(textLower) ==
  \/ includes(textLower, <<"p","a","y","e","e">>) /\ includes(textLower, <<"t","y","p","e">>)
  \/ includes(textLower, <<"p","a","y","e","e","/","p","a","y","e","r">>)

(***************************************************************************)
(* parsePropertyPage: one row inside the transaction table                 *)
(***************************************************************************)
knownTypes ==
  << <<"r","e","n","t"," ","i","n","c","o","m","e">>, <<"m","a","n","a","g","e","m","e","n","t"," ","f","e","e","s">>, <<"b","i","l","l">>, <<"o","w","n","e","r"," ","d","i","s","t","r","i","b","u","t","i","o","n">>,
     <<"b","e","g","i","n","n","i","n","g"," ","c","a","s","h"," ","b","a","l","a","n","c","e">>, <<"e","n","d","i","n","g"," ","c","a","s","h"," ","b","a","l","a","n","c","e">>, <<"d","e","p","o","s","i","t">>, <<"c","r","e","d","i","t">>,
     <<"l","a","t","e"," ","f","e","e">>, <<"n","s","f"," ","f","e","e">>, <<"s","e","c","u","r","i","t","y"," ","d","e","p","o","s","i","t">>, <<"p","r","e","p","a","i","d"," ","r","e","n","t">> >>

\* /^\d+$/ || /^[A-Z]{2,4}\d+/ || /^#?\d{4,}/
isReference(t) ==
  LET u == runLength(t, 1, UpperChars)
      h == IF t # <<>> /\ t[1] = "#" THEN 1 ELSE 0
  IN  \/ Len(t) >= 1 /\ runLength(t, 1, DigitChars) = Len(t)
      \/ u \in 2..4 /\ u < Len(t) /\ t[u + 1] \in DigitChars
      \/ runLength(t, h + 1, DigitChars) >= 4

isKnownType(partLower) == \E k \in DOMAIN knownTypes : includes(partLower, knownTypes[k])

\* the loop over textParts: type, payee and description parts
RECURSIVE splitParts(_, _)
splitParts(textParts, acc) ==
  IF textParts = <<>> THEN acc
  ELSE LET part == Head(textParts)
           partLower == toLowerCase(part.text)
       IN  IF isReference(part.text) THEN splitParts(Tail(textParts), acc)
           ELSE IF acc.type = <<>> /\ isKnownType(partLower)
           THEN splitParts(Tail(textParts), [acc EXCEPT !.type = part.text])
           ELSE IF acc.payee = <<>>
           THEN splitParts(Tail(textParts), [acc EXCEPT !.payee = part.text])
           ELSE splitParts(Tail(textParts),
                           [acc EXCEPT !.descriptionParts = Append(@, part.text)])

\* the first known type contained in the full text, or ''
typeFromText(textLower) ==
  LET hits == { k \in DOMAIN knownTypes : includes(textLower, knownTypes[k]) }
  IN  IF hits = {} THEN <<>> ELSE knownTypes[CHOOSE k \in hits : \A j \in hits : k <= j]

isIncomeTypeOf_noCredit(typeLower) ==
  \/ includes(typeLower, <<"r","e","n","t">>) \/ includes(typeLower, <<"i","n","c","o","m","e">>)
  \/ includes(typeLower, <<"l","a","t","e"," ","f","e","e">>) \/ includes(typeLower, <<"p","r","e","p","a","i","d">>)

isIncomeTypeOf(typeLower) ==
  \/ includes(typeLower, <<"r","e","n","t">>) \/ includes(typeLower, <<"i","n","c","o","m","e">>)
  \/ includes(typeLower, <<"d","e","p","o","s","i","t">>) \/ includes(typeLower, <<"l","a","t","e"," ","f","e","e">>)
  \/ includes(typeLower, <<"c","r","e","d","i","t">>) \/ includes(typeLower, <<"p","r","e","p","a","i","d">>)

\* the x-gap above which the left amount of two is taken for the Cash In column
CashInGap == 100

assignAmounts_rightToLeft(sortedAmounts, typeLower) ==
  IF Len(sortedAmounts) = 2
  THEN [ cashIn  |-> IF isIncomeTypeOf(typeLower) THEN sortedAmounts[2].value ELSE 0,
         cashOut |-> IF isIncomeTypeOf(typeLower) THEN 0 ELSE sortedAmounts[2].value,
         balance |-> sortedAmounts[1].value ]
  ELSE [ cashIn |-> 0, cashOut |-> 0, balance |-> 0 ]

\* three amounts routed like two: the leftmost by type, the rightmost as balance
assignAmounts_threeAsTwo(sortedAmounts, typeLower) ==
  IF Len(sortedAmounts) >= 3
  THEN [ cashIn  |-> IF isIncomeTypeOf(typeLower) THEN sortedAmounts[1].value ELSE 0,
         cashOut |-> IF isIncomeTypeOf(typeLower) THEN 0 ELSE sortedAmounts[1].value,
         balance |-> sortedAmounts[3].value ]
  ELSE [ cashIn |-> 0, cashOut |-> 0, balance |-> 0 ]

\* two amounts with the gap test gap >= 100
assignAmounts_gapInclusive(sortedAmounts, typeLower) ==
  IF Len(sortedAmounts) = 2
  THEN IF \/ isIncomeTypeOf(typeLower)
          \/ /\ sortedAmounts[2].x - sortedAmounts[1].x >= CashInGap
             /\ ~includes(typeLower, <<"b","i","l","l">>)
             /\ ~includes(typeLower, <<"m","a","n","a","g","e","m","e","n","t">>)
             /\ ~includes(typeLower, <<"o","w","n","e","r">>)
       THEN [ cashIn |-> sortedAmounts[1].value, cashOut |-> 0,
              balance |-> sortedAmounts[2].value ]
       ELSE [ cashIn |-> 0, cashOut |-> sortedAmounts[1].value,
              balance |-> sortedAmounts[2].value ]
  ELSE [ cashIn |-> 0, cashOut |-> 0, balance |-> 0 ]

\* cashIn, cashOut and balance from the amounts sorted by x
assignAmounts(sortedAmounts, typeLower) ==
  LET isIncomeType == isIncomeTypeOf(typeLower)
      n == Len(sortedAmounts)
  IN  IF n >= 3
      THEN [ cashIn  |-> sortedAmounts[1].value,
             cashOut |-> sortedAmounts[2].value,
             balance |-> sortedAmounts[3].value ]
      ELSE IF n = 2
      THEN LET amt == sortedAmounts[1].value
               gap == sortedAmounts[2].x - sortedAmounts[1].x
               toCashIn ==
                 \/ isIncomeType
                 \/ /\ gap > CashInGap
                    /\ ~includes(typeLower, <<"b","i","l","l">>)
                    /\ ~includes(typeLower, <<"m","a","n","a","g","e","m","e","n","t">>)
                    /\ ~includes(typeLower, <<"o","w","n","e","r">>)
           IN  [ cashIn  |-> IF toCashIn THEN amt ELSE 0,
                 cashOut |-> IF toCashIn THEN 0 ELSE amt,
                 balance |-> sortedAmounts[2].value ]
      ELSE IF n = 1
      THEN [ cashIn  |-> IF isIncomeType THEN sortedAmounts[1].value ELSE 0,
             cashOut |-> IF isIncomeType THEN 0 ELSE sortedAmounts[1].value,
             balance |-> 0 ]
      ELSE [ cashIn |-> 0, cashOut |-> 0, balance |-> 0 ]

\* the "Skip balance-only rows" test on (type || textLower)
isBalanceRow(type, textLower) ==
  LET typeCheck == IF type # <<>> THEN type ELSE textLower
  IN  \/ includes(typeCheck, <<"b","e","g","i","n","n","i","n","g"," ","c","a","s","h"," ","b","a","l","a","n","c","e">>)
      \/ includes(typeCheck, <<"e","n","d","i","n","g"," ","c","a","s","h"," ","b","a","l","a","n","c","e">>)

\* the rows the gate lets through: not noise, 3+ fragments, a date first
\* the gate without the test of the first fragment
passesGate_anyFirstFragment(row, text) ==
  /\ text # <<>>
  /\ ~includes(toLowerCase(text), <<"p","a","g","e"," ">>)
  /\ ~includes(toLowerCase(text), <<"t","o","t","a","l">>)
  /\ Len(row) >= 3

passesGate(row, text) ==
  /\ text # <<>>
  /\ ~includes(toLowerCase(text), <<"p","a","g","e"," ">>)
  /\ ~includes(toLowerCase(text), <<"t","o","t","a","l">>)
  /\ Len(row) >= 3
  /\ (parseDate(row[1].text) # <<>> \/ isRawDate(row[1].text))

\* the fragments of the row that are money amounts, with their values
amountsOf(row) ==
  LET money == SelectSeq(row, LAMBDA item : isMoneyText(item.text))
  IN  [k \in 1..Len(money) |->
         [ text |-> money[k].text, x |-> money[k].x, value |-> parseMoney(money[k].text) ]]

absValue_identity(v) == v

\* Math.abs of the amount stored in cashIn and cashOut
absValue(v) == IF v < 0 THEN -v ELSE v

\* the object pushed to transactions
transactionRecord(date, payee, type, extraDescription, cash) ==
  [ date        |-> date,
    payee       |-> payee,
    type        |-> type,
    description |-> IF extraDescription # <<>>
                    THEN (IF payee # <<>> THEN payee ELSE IF type # <<>> THEN type ELSE <<"U","n","k","n","o","w","n">>)
                         \o <<" ","-"," ">> \o extraDescription
                    ELSE (IF payee # <<>> THEN payee ELSE IF type # <<>> THEN type ELSE <<"U","n","k","n","o","w","n">>),
    cashIn      |-> absValue(cash.cashIn),
    cashOut     |-> absValue(cash.cashOut),
    balance     |-> cash.balance ]

typedTransaction(date, parts, type, sortedAmounts) ==
  transactionRecord(date, parts.payee, type, join(parts.descriptionParts, <<" ">>),
                    assignAmounts(sortedAmounts, toLowerCase(type)))

partsTransaction(date, parts, textLower, sortedAmounts) ==
  typedTransaction(date, parts,
                   IF parts.type # <<>> THEN parts.type ELSE typeFromText(textLower),
                   sortedAmounts)

\* the fragments that are neither amounts nor the date
textPartsOf(row, firstItem) ==
  SelectSeq(SelectSeq(row, LAMBDA item : ~isMoneyText(item.text)),
            LAMBDA item : item.text # firstItem)

\* the transaction pushed for a row that passed the gate and has amounts
transactionOf(row, text) ==
  partsTransaction(parseDate(row[1].text),
                   splitParts(textPartsOf(row, row[1].text),
                              [type |-> <<>>, payee |-> <<>>, descriptionParts |-> <<>>]),
                   toLowerCase(text),
                   sortByKey(amountsOf(row), xsOf(amountsOf(row))))

\* the "Skip balance-only rows" filter
unlessBalanceRow(tx, textLower) == IF isBalanceRow(tx.type, textLower) THEN <<>> ELSE <<tx>>

rowTransactions_noAmountCheck(row, text) ==
  IF ~passesGate(row, text) THEN <<>>
  ELSE unlessBalanceRow(transactionOf(row, text), toLowerCase(text))

\* lines 231-391 for one row in table mode: the transactions it adds (none or one)
rowTransactions(row, text) ==
  IF ~passesGate(row, text) THEN <<>>
  ELSE IF Len(amountsOf(row)) = 0 THEN <<>>
  ELSE unlessBalanceRow(transactionOf(row, text), toLowerCase(text))

(***************************************************************************)
(* categorizeTransaction                                                   *)
(***************************************************************************)
rules ==
  << [ keywords |-> << <<"r","e","n","t"," ","i","n","c","o","m","e">>, <<"r","e","n","t"," ","p","a","y","m","e","n","t">>, <<"m","o","n","t","h","l","y"," ","r","e","n","t">> >>, category |-> "rent" ],
     [ keywords |-> << <<"l","a","t","e"," ","f","e","e">>, <<"l","a","t","e"," ","c","h","a","r","g","e">> >>, category |-> "late-fee" ],
     [ keywords |-> << <<"s","e","c","u","r","i","t","y"," ","d","e","p","o","s","i","t">>, <<"d","e","p","o","s","i","t"," ","r","e","f","u","n","d">> >>, category |-> "deposit" ],
     [ keywords |-> << <<"m","a","n","a","g","e","m","e","n","t"," ","f","e","e">>, <<"m","a","n","a","g","e","m","e","n","t"," ","f","e","e","s">>, <<"m","g","m","t"," ","f","e","e">> >>,
       category |-> "management-fee" ],
     [ keywords |-> << <<"o","w","n","e","r"," ","d","i","s","t","r","i","b","u","t","i","o","n">>, <<"o","w","n","e","r"," ","d","i","s","b","u","r","s","e","m","e","n","t">>, <<"o","w","n","e","r"," ","d","r","a","w">> >>,
       category |-> "owner-distribution" ],
     [ keywords |-> << <<"p","l","u","m","b">>, <<"d","r","a","i","n">>, <<"p","i","p","e">>, <<"t","o","i","l","e","t">>, <<"f","a","u","c","e","t">>, <<"w","a","t","e","r"," ","h","e","a","t","e","r">> >>,
       category |-> "plumbing" ],
     [ keywords |-> << <<"e","l","e","c","t","r","i","c">>, <<"w","i","r","i","n","g">>, <<"o","u","t","l","e","t">>, <<"b","r","e","a","k","e","r">>, <<"j"," ","a","n","d"," ","r"," ","e","l","e","c","t","r","i","c">> >>,
       category |-> "electrical" ],
     [ keywords |-> << <<"h","v","a","c">>, <<"a","i","r"," ","c","o","n","d","i","t","i","o","n">>, <<"f","u","r","n","a","c","e">>, <<"a","/","c">>, <<"h","e","a","t","i","n","g">> >>,
       category |-> "hvac" ],
     [ keywords |-> << <<"a","p","p","l","i","a","n","c","e">>, <<"w","a","s","h","e","r">>, <<"d","r","y","e","r">>, <<"d","i","s","h","w","a","s","h","e","r">>, <<"r","e","f","r","i","g","e","r">>,
                       <<"s","t","o","v","e">>, <<"o","v","e","n">>, <<"g","r","i","t"," ","a","p","p","l","i","a","n","c","e">> >>,
       category |-> "appliance" ],
     [ keywords |-> << <<"p","e","s","t">>, <<"e","x","t","e","r","m","i","n","a","t","o","r">>, <<"t","e","r","m","i","t","e">>, <<"r","o","a","c","h">> >>,
       category |-> "pest-control" ],
     [ keywords |-> << <<"c","l","e","a","n">>, <<"j","a","n","i","t","o","r","i","a","l">>, <<"m","a","i","d">> >>, category |-> "cleaning" ],
     [ keywords |-> << <<"l","a","n","d","s","c","a","p">>, <<"l","a","w","n">>, <<"m","o","w">>, <<"y","a","r","d">>, <<"t","r","e","e">>, <<"s","n","o","w">> >>,
       category |-> "landscaping" ],
     [ keywords |-> << <<"i","n","s","u","r">> >>, category |-> "insurance" ],
     [ keywords |-> << <<"t","a","x">>, <<"p","r","o","p","e","r","t","y"," ","t","a","x">> >>, category |-> "taxes" ],
     [ keywords |-> << <<"h","o","a">>, <<"a","s","s","o","c","i","a","t","i","o","n">> >>, category |-> "hoa" ],
     [ keywords |-> << <<"l","e","g","a","l">>, <<"a","t","t","o","r","n","e","y">>, <<"e","v","i","c","t">> >>, category |-> "legal" ],
     [ keywords |-> << <<"r","e","l","i","a","n","t">>, <<"c","e","n","t","e","r","p","o","i","n","t">>, <<"a","t","m","o","s">>, <<"u","t","i","l","i","t","y">>, <<"w","a","t","e","r"," ","b","i","l","l">>,
                       <<"s","e","w","e","r">>, <<"t","r","a","s","h">> >>,
       category |-> "utilities" ],
     [ keywords |-> << <<"l","o","w","e">>, <<"h","o","m","e"," ","d","e","p","o","t">>, <<"m","e","n","a","r","d">>, <<"a","c","e"," ","h","a","r","d","w","a","r","e">> >>,
       category |-> "repair" ],
     [ keywords |-> << <<"r","e","p","a","i","r">>, <<"f","i","x">>, <<"r","e","p","l","a","c","e">>, <<"m","a","i","n","t","e","n","a","n","c","e">>, <<"s","e","r","v","i","c","e">> >>,
       category |-> "repair" ] >>

\* the last matching rule wins
categorizeTransaction_lastMatch(tx) ==
  LET text == toLowerCase(tx.payee \o <<" ">> \o tx.type \o <<" ">> \o tx.description)
      hits == { r \in DOMAIN rules :
                  \E k \in DOMAIN rules[r].keywords : includes(text, rules[r].keywords[k]) }
  IN  IF hits = {} THEN "other"
      ELSE rules[CHOOSE r \in hits : \A q \in hits : r >= q].category

categorizeTransaction(tx) ==
  LET text == toLowerCase(tx.payee \o <<" ">> \o tx.type \o <<" ">> \o tx.description)
      hits == { r \in DOMAIN rules :
                  \E k \in DOMAIN rules[r].keywords : includes(text, rules[r].keywords[k]) }
  IN  IF hits = {} THEN "other"
      ELSE rules[CHOOSE r \in hits : \A q \in hits : r <= q].category

(***************************************************************************)
(* parseOwnerPacket: flattening and totals                                 *)
(***************************************************************************)
flowTypeOf_split(isIncome, isDistribution) == IF isIncome THEN "income" ELSE "expense"

\* flowType of a categorized transaction
flowTypeOf(isIncome, isDistribution) ==
  IF isDistribution THEN "distribution"
  ELSE IF isIncome THEN "income" ELSE "expense"

isIncomeOf_cashInOnly(tx) == tx.cashIn > 0

isIncomeOf(tx) == tx.cashIn > 0 /\ tx.cashOut = 0

isExpenseOf_noCashIn(tx) == tx.cashOut > 0 /\ tx.cashIn = 0

isExpenseOf(tx) == tx.cashOut > 0

categorized(tx, prop) ==
  LET category == categorizeTransaction(tx)
      isIncome == isIncomeOf(tx)
      isExpense == isExpenseOf(tx)
      isDistribution == category = "owner-distribution"
      hasAddress == prop.propertyAddress # Null
  IN  [ date |-> tx.date, payee |-> tx.payee, type |-> tx.type,
        description |-> tx.description,
        cashIn |-> tx.cashIn, cashOut |-> tx.cashOut, balance |-> tx.balance,
        propertyAddress |-> IF hasAddress THEN prop.propertyAddress.shortAddress ELSE <<>>,
        propertyFullAddress |-> IF hasAddress THEN prop.propertyAddress.fullAddress ELSE <<>>,
        category |-> category,
        isIncome |-> isIncome,
        isExpense |-> isExpense,
        isDistribution |-> isDistribution,
        amount |-> IF isIncome THEN tx.cashIn ELSE tx.cashOut,
        flowType |-> flowTypeOf(isIncome, isDistribution) ]

RECURSIVE flatten_lastFirst(_)
flatten_lastFirst(properties) ==
  IF properties = <<>> THEN <<>>
  ELSE flatten_lastFirst(Tail(properties))
       \o [k \in 1..Len(Head(properties).transactions) |->
             categorized(Head(properties).transactions[k], Head(properties))]

\* properties.forEach(prop => prop.transactions.forEach(...))
RECURSIVE flatten(_)
flatten(properties) ==
  IF properties = <<>> THEN <<>>
  ELSE LET prop == Head(properties)
       IN  [k \in 1..Len(prop.transactions) |-> categorized(prop.transactions[k], prop)]
           \o flatten(Tail(properties))

\* seq.filter(keep).reduce((s, t) => s + amount(t), 0)
RECURSIVE sum(_)
sum(nums) == IF nums = <<>> THEN 0 ELSE Head(nums) + sum(Tail(nums))

\* the cashIn or cashOut each transaction adds to a total
incomeOf(t) == IF t.isIncome THEN t.cashIn ELSE 0

expenseOf_withDistributions(t) == IF t.isExpense THEN t.cashOut ELSE 0

expenseOf(t) == IF t.isExpense /\ ~t.isDistribution THEN t.cashOut ELSE 0

distributionOf(t) == IF t.isDistribution THEN t.cashOut ELSE 0

summaryOf(properties, allTransactions) ==
  [ totalProperties     |-> Len(properties),
    totalTransactions   |-> Len(allTransactions),
    totalIncome         |->
      sum([k \in 1..Len(allTransactions) |-> incomeOf(allTransactions[k])]),
    totalExpenses       |->
      sum([k \in 1..Len(allTransactions) |-> expenseOf(allTransactions[k])]),
    totalDistributions  |->
      sum([k \in 1..Len(allTransactions) |-> distributionOf(allTransactions[k])]) ]

(***************************************************************************)
(* detectStatementPeriod                                                   *)
(***************************************************************************)
months ==
  << <<<<"j","a","n">>, <<"0","1">>>>, <<<<"j","a","n","u","a","r","y">>, <<"0","1">>>>, <<<<"f","e","b">>, <<"0","2">>>>, <<<<"f","e","b","r","u","a","r","y">>, <<"0","2">>>>,
     <<<<"m","a","r">>, <<"0","3">>>>, <<<<"m","a","r","c","h">>, <<"0","3">>>>, <<<<"a","p","r">>, <<"0","4">>>>, <<<<"a","p","r","i","l">>, <<"0","4">>>>,
     <<<<"m","a","y">>, <<"0","5">>>>, <<<<"j","u","n">>, <<"0","6">>>>, <<<<"j","u","n","e">>, <<"0","6">>>>,
     <<<<"j","u","l">>, <<"0","7">>>>, <<<<"j","u","l","y">>, <<"0","7">>>>, <<<<"a","u","g">>, <<"0","8">>>>, <<<<"a","u","g","u","s","t">>, <<"0","8">>>>,
     <<<<"s","e","p">>, <<"0","9">>>>, <<<<"s","e","p","t","e","m","b","e","r">>, <<"0","9">>>>, <<<<"o","c","t">>, <<"1","0">>>>, <<<<"o","c","t","o","b","e","r">>, <<"1","0">>>>,
     <<<<"n","o","v">>, <<"1","1">>>>, <<<<"n","o","v","e","m","b","e","r">>, <<"1","1">>>>, <<<<"d","e","c">>, <<"1","2">>>>, <<<<"d","e","c","e","m","b","e","r">>, <<"1","2">>>> >>

\* months[name.toLowerCase()] || '01'
monthNumber(name) ==
  LET hits == { k \in DOMAIN months : months[k][1] = toLowerCase(name) }
  IN  IF hits = {} THEN <<"0","1">> ELSE months[CHOOSE k \in hits : TRUE][2]

\* (\w{3,9})\s+(\d{1,2}),?\s+(\d{4}) matched at position k: the phrase as
\* <<word start, word length, day start, day length, year start>>, or <<>>
phraseYear(s, k, w, d, dn, y) ==
  IF runLength(s, y, DigitChars) >= 4 THEN << k, w, d, dn, y >> ELSE <<>>

\* c is the position after the day and its optional comma
phraseAfterDay(s, k, w, d, dn, c) ==
  IF runLength(s, c, WhiteSpace) >= 1
  THEN phraseYear(s, k, w, d, dn, skip(s, c, WhiteSpace))
  ELSE <<>>

phraseDay(s, k, w, d, dn) ==
  IF dn \in 1..2
  THEN phraseAfterDay(s, k, w, d, dn,
                      IF d + dn <= Len(s) /\ s[d + dn] = "," THEN d + dn + 1 ELSE d + dn)
  ELSE <<>>

phraseWord(s, k, w) ==
  IF w \in 3..9 /\ runLength(s, k + w, WhiteSpace) >= 1
  THEN phraseDay(s, k, w, skip(s, k + w, WhiteSpace),
                 runLength(s, skip(s, k + w, WhiteSpace), DigitChars))
  ELSE <<>>

datePhraseAt(s, k) == phraseWord(s, k, runLength(s, k, WordChars))

periodPair(a, b) == IF b = <<>> THEN <<>> ELSE << a, b >>

\* \s*[-–]\s* and the second phrase; p is where the dash must be
periodSecond(s, a, p) ==
  IF p <= Len(s) /\ s[p] \in DashChars
  THEN periodPair(a, datePhraseAt(s, skip(s, p + 1, WhiteSpace)))
  ELSE <<>>

periodFirst(s, a) ==
  IF a = <<>> THEN <<>> ELSE periodSecond(s, a, skip(s, a[5] + 4, WhiteSpace))

\* the whole period pattern matched at position k: the two phrases, or <<>>
periodAt(s, k) == periodFirst(s, datePhraseAt(s, k))

\* the object returned for the groups 1..6 of the match
periodOfGroups(m1, m2, m3, m4, m5, m6) ==
  [ startDate |-> m3 \o <<"-">> \o monthNumber(m1) \o <<"-">> \o padStart2(m2),
    endDate   |-> m6 \o <<"-">> \o monthNumber(m4) \o <<"-">> \o padStart2(m5),
    monthStr  |-> m6 \o <<"-">> \o monthNumber(m4),
    displayPeriod |-> m1 \o <<" ">> \o m2 \o <<",", " ">> \o m3 \o <<" ", EnDash, " ">>
                      \o m4 \o <<" ">> \o m5 \o <<",", " ">> \o m6 ]

periodOfMatch(s, a, b) ==
  periodOfGroups(SubSeq(s, a[1], a[1] + a[2] - 1), SubSeq(s, a[3], a[3] + a[4] - 1),
                 SubSeq(s, a[5], a[5] + 3),
                 SubSeq(s, b[1], b[1] + b[2] - 1), SubSeq(s, b[3], b[3] + b[4] - 1),
                 SubSeq(s, b[5], b[5] + 3))

periodFrom(s, m) == periodOfMatch(s, m[1], m[2])

\* allText.match(...): the leftmost match
detectStatementPeriod(allText) ==
  IF \A k \in 1..Len(allText) : periodAt(allText, k) = <<>> THEN Null
  ELSE periodFrom(allText,
                  periodAt(allText,
                           CHOOSE k \in 1..Len(allText) :
                             /\ periodAt(allText, k) # <<>>
                             /\ \A j \in 1..(k - 1) : periodAt(allText, j) = <<>>))

(***************************************************************************)
(* The documents handed to the parser.  A fragment is what the PDF layer   *)
(* reports: its string, transform[4] and transform[5] in tenths of a unit, *)
(* and its width (0: no width reported).                                   *)
(***************************************************************************)
MaxRows == 2

MaxPages == 3

\* a fragment at column x of its row, dy tenths off the row's baseline
F(str, x) == [str |-> str, tx |-> 10 * x, dy |-> 0, width |-> 0]

Fw(str, tx, dy, width) == [str |-> str, tx |-> tx, dy |-> dy, width |-> width]

HeaderRow == << F(<<"1","2","3"," ","M","a","i","n"," ","S","t"," ","-"," ","D","u","l","i","n"," ","-"," ","1","2","3"," ","M","a","i","n"," ","S","t",","," ","A","b","i","l","e","n","e",","," ","T","X"," ","7","9","6","0","5">>, 30) >>

SummaryRow == << F(<<"P","r","o","p","e","r","t","y"," ","C","a","s","h"," ","S","u","m","m","a","r","y">>, 30) >>

BeginningRow == << F(<<"B","e","g","i","n","n","i","n","g"," ","C","a","s","h"," ","B","a","l","a","n","c","e">>, 30), F(<<"$","5","0","0",".","0","0">>, 150) >>

EndingRow == << F(<<"E","n","d","i","n","g"," ","C","a","s","h"," ","B","a","l","a","n","c","e">>, 30), F(<<"$","6","5","0",".","0","0">>, 135) >>

TableHeaderRow ==
  << F(<<"D","a","t","e">>, 30), F(<<"P","a","y","e","e","/","P","a","y","e","r">>, 100), F(<<"T","y","p","e">>, 220), F(<<"R","e","f","e","r","e","n","c","e">>, 300),
     F(<<"D","e","s","c","r","i","p","t","i","o","n">>, 360), F(<<"C","a","s","h"," ","I","n">>, 420), F(<<"C","a","s","h"," ","O","u","t">>, 480), F(<<"B","a","l","a","n","c","e">>, 540) >>

RentRow ==
  << F(<<"0","1","/","1","5","/","2","0","2","6">>, 30), F(<<"J","o","h","n"," ","D","o","e">>, 100), F(<<"R","e","n","t"," ","I","n","c","o","m","e">>, 220),
     F(<<"$","1","5","0",".","0","0">>, 420), F(<<"$","6","5","0",".","0","0">>, 540) >>

\* a bill whose amount is printed in parentheses and whose balance is overdrawn
BillRow ==
  << F(<<"0","1","/","2","2","/","2","0","2","6">>, 30), Fw(<<" ","A","c","m","e"," ","P","l","u","m","b","i","n","g"," ">>, 1004, 12, 65), F(<<"B","i","l","l">>, 220),
     F(<<"(","5","0",".","0","0",")">>, 480), F(<<"-","6","0","0",".","0","0">>, 540) >>

DistributionRow ==
  << F(<<"0","1","/","2","5","/","2","0","2","6">>, 30), F(<<"M","i","k","e"," ","D","u","l","i","n">>, 100), F(<<"O","w","n","e","r"," ","D","i","s","t","r","i","b","u","t","i","o","n">>, 220),
     F(<<"$","1","0","0",".","0","0">>, 480), F(<<"$","5","0","0",".","0","0">>, 540) >>

\* a dated row without any amount
MemoRow == << F(<<"0","1","/","2","0","/","2","0","2","6">>, 30), F(<<"J","a","n","e"," ","R","o","e">>, 100), F(<<"B","i","l","l">>, 220) >>

\* the balance line of the ledger, dated, as the statement prints it
BalanceEchoRow ==
  << F(<<"0","1","/","0","1","/","2","0","2","6">>, 30), F(<<"B","e","g","i","n","n","i","n","g"," ","C","a","s","h"," ","B","a","l","a","n","c","e">>, 220), F(<<"$","5","0","0",".","0","0">>, 540) >>

\* a row with all three amount columns filled
AdjustRow ==
  << F(<<"1","/","2","8","/","2","6">>, 30), F(<<"J","a","n","e"," ","R","o","e">>, 100), F(<<"C","r","e","d","i","t">>, 220), F(<<"R","C","1","0","2","1">>, 300),
     F(<<"-","2","0",".","0","0">>, 420), F(<<"$","5",".","0","0">>, 480), F(<<"$","5","1","5",".","0","0">>, 540) >>

\* a summary title that also names the table columns
SummaryTitleRow == << F(<<"P","r","o","p","e","r","t","y"," ","C","a","s","h"," ","S","u","m","m","a","r","y">>, 30), F(<<"P","a","y","e","e","/","P","a","y","e","r">>, 200) >>

\* balance lines written so that no fragment holds a known type
SplitEchoRow ==
  << F(<<"0","1","/","3","1","/","2","0","2","6">>, 30), F(<<"E","n","d","i","n","g"," ","C","a","s","h">>, 220), F(<<"B","a","l","a","n","c","e">>, 281), F(<<"$","6","5","0",".","0","0">>, 540) >>

\* a balance line on a row where another type is found first
TypedEchoRow ==
  << F(<<"0","1","/","3","1","/","2","0","2","6">>, 30), F(<<"R","e","n","t"," ","I","n","c","o","m","e">>, 100), F(<<"E","n","d","i","n","g"," ","C","a","s","h"," ","B","a","l","a","n","c","e">>, 220),
     F(<<"$","6","5","0",".","0","0">>, 540) >>

TotalRow == << F(<<"0","1","/","3","1","/","2","0","2","6">>, 30), F(<<"T","o","t","a","l">>, 100), F(<<"$","1","5","0",".","0","0">>, 420), F(<<"$","6","5","0",".","0","0">>, 540) >>

BlankRow == << F(<<" "," ">>, 30) >>

CashInRow == << F(<<"C","a","s","h"," ","I","n">>, 30), F(<<"$","1","5","0",".","0","0">>, 150) >>

CashOutRow == << F(<<"C","a","s","h"," ","O","u","t">>, 30), F(<<"(","6","5",".","0","0",")">>, 150) >>

FeesRow == << F(<<"M","a","n","a","g","e","m","e","n","t"," ","F","e","e","s">>, 30), F(<<"(","1","5",".","0","0",")">>, 150) >>

DisbursementRow == << F(<<"O","w","n","e","r"," ","D","i","s","b","u","r","s","e","m","e","n","t","s">>, 30), F(<<"-","1","0","0",".","0","0">>, 150) >>

PayeeNoteRow == << F(<<"0","1","/","0","2","/","2","0","2","6">>, 30), F(<<"P","a","y","e","e">>, 100), F(<<"J","o","h","n"," ","D","o","e">>, 160), F(<<"$","1",".","0","0">>, 540) >>

PlainHeaderRow == << F(<<"D","a","t","e">>, 30), F(<<"P","a","y","e","e">>, 100), F(<<"T","y","p","e">>, 220), F(<<"A","m","o","u","n","t">>, 420) >>

ConsolidatedRow == << F(<<"C","o","n","s","o","l","i","d","a","t","e","d"," ","S","u","m","m","a","r","y">>, 30) >>

ConsolidatedOwnerRow == << F(<<"C","o","n","s","o","l","i","d","a","t","e","d"," ","O","w","n","e","r"," ","S","t","a","t","e","m","e","n","t">>, 30) >>

PeriodRow == << F(<<"J","a","n"," ","0","1",","," ","2","0","2","6"," ","-"," ","J","a","n"," ","3","1",","," ","2","0","2","6">>, 30) >>

PropertyListRow == << F(<<"1","2","3"," ","M","a","i","n"," ","S","t">>, 30), F(<<"$","6","5","0",".","0","0">>, 540) >>

\* the raw items of a page whose k-th row from the top is rowsOfPage[k]
RECURSIVE pageOf(_, _)
pageOf(rowsOfPage, k) ==
  IF k > Len(rowsOfPage) THEN <<>>
  ELSE [n \in 1..Len(rowsOfPage[k]) |->
          [ str   |-> rowsOfPage[k][n].str,
            tx    |-> rowsOfPage[k][n].tx,
            ty    |-> 10 * (700 - 20 * (k - 1)) + rowsOfPage[k][n].dy,
            width |-> rowsOfPage[k][n].width ]]
       \o pageOf(rowsOfPage, k + 1)

Page(rowsOfPage) == pageOf(rowsOfPage, 1)

FrontPage == Page(<< ConsolidatedRow, PeriodRow, PropertyListRow >>)

ScenarioPage ==
  Page(<< HeaderRow, SummaryRow, BeginningRow, EndingRow, TableHeaderRow, RentRow >>)

ScenarioPageNoTableHeader ==
  Page(<< HeaderRow, SummaryRow, BeginningRow, EndingRow, RentRow >>)

LedgerPage ==
  Page(<< TableHeaderRow, BalanceEchoRow, SplitEchoRow, TypedEchoRow, TotalRow, BillRow >>)

OwnerCopyPage == Page(<< ConsolidatedOwnerRow, HeaderRow, TableHeaderRow, RentRow >>)

\* a page with every line of the cash summary and a full ledger
StatementPage ==
  Page(<< HeaderRow, SummaryRow, BeginningRow, CashInRow, CashOutRow, FeesRow, DisbursementRow,
          EndingRow, TableHeaderRow, RentRow, BillRow, AdjustRow, DistributionRow >>)

\* a ledger whose header names the columns Payee and Type; a note above it names a payee
PlainLedgerPage == Page(<< PayeeNoteRow, RentRow, PlainHeaderRow, RentRow, MemoRow >>)

BlankPage == Page(<< BlankRow >>)

\* the rows a generated page draws its table from
TableRows ==
  { TableHeaderRow, RentRow, BillRow, DistributionRow, MemoRow, BalanceEchoRow, AdjustRow,
    SummaryTitleRow }

PagePrefixes == { <<>>, << HeaderRow >>, << SummaryRow, BeginningRow, EndingRow >> }

SeqsUpTo(S, n) == UNION { [1..k -> S] : k \in 0..n }

GeneratedPages == { Page(p \o t) : p \in PagePrefixes, t \in SeqsUpTo(TableRows, MaxRows) }

NamedPages ==
  { ScenarioPage, ScenarioPageNoTableHeader, LedgerPage, StatementPage, PlainLedgerPage,
    OwnerCopyPage, BlankPage }

\* the pages that follow a first page that is itself a property page
LaterPages == { LedgerPage, OwnerCopyPage }

\* page lists: none, one generated page, a front page and named pages, or a
\* packet that starts with a property page
PageLists ==
  {<<>>} \cup { <<p>> : p \in GeneratedPages }
         \cup { <<FrontPage>> \o t : t \in SeqsUpTo(NamedPages, MaxPages - 1) }
         \cup { <<ScenarioPage>> \o t : t \in SeqsUpTo(LaterPages, MaxPages - 1) }

\* what the PDF layer does with the bytes: getDocument rejects with a reason,
\* or the document opens and getPage / getTextContent of page failPage rejects
Documents ==
  { [opens |-> o, reason |-> "Invalid PDF structure", pages |-> ps, failPage |-> f] :
      o \in BOOLEAN, ps \in PageLists, f \in 0..MaxPages }

(***************************************************************************)
(* parseOwnerPacket as a state machine                                     *)
(***************************************************************************)
VARIABLES
  pdfData,              \* the document given to parseOwnerPacket
  pc,                   \* where parseOwnerPacket is
  error,                \* the message of the Error it threw, "" if none
  numPages,
  i,                    \* the page of the running loop, counted from 1
  allPageRows,
  fullText,
  period,
  properties,
  address,              \* parsePropertyPage: address
  transactions,         \* parsePropertyPage: transactions
  inTransactionTable,   \* parsePropertyPage: inTransactionTable
  cashSummary,          \* parsePropertyPage: cashSummary
  r,                    \* parsePropertyPage: the row of its loop, counted from 1
  result,               \* the ParseResult returned, Null before
  parsedPages,          \* history: the pages handed to parsePropertyPage
  txRows,               \* history: the row each of transactions was pushed for
  calls,                \* the number of the running invocation of parseOwnerPacket
  outcomes,             \* history: the input and the outcome of the earlier invocations
  called,               \* a helper function called on its own, and its argument
  returned              \* what that call returned, Null before

vars ==
  << pdfData, pc, error, numPages, i, allPageRows, fullText, period, properties, address,
     transactions, inTransactionTable, cashSummary, r, result, parsedPages, txRows,
     calls, outcomes, called, returned >>

callVars == << calls, outcomes, called, returned >>

\* no helper function is called on its own
NoCall == [fn |-> "none", arg |-> <<>>]

pageVars == << address, transactions, inTransactionTable, cashSummary, r, txRows >>

NoSummary == [f \in {} |-> 0]

Init ==
  /\ pdfData \in Documents
  /\ pdfData.failPage <= Len(pdfData.pages)
  /\ pdfData.opens \/ pdfData.failPage = 0
  /\ pc = "open"
  /\ error = ""
  /\ numPages = 0
  /\ i = 0
  /\ allPageRows = <<>>
  /\ fullText = <<>>
  /\ period = Null
  /\ properties = <<>>
  /\ address = Null
  /\ transactions = <<>>
  /\ inTransactionTable = FALSE
  /\ cashSummary = NoSummary
  /\ r = 0
  /\ result = Null
  /\ parsedPages = {}
  /\ txRows = <<>>
  /\ calls = 1
  /\ outcomes = {}
  /\ called = NoCall
  /\ returned = Null

\* lines 444-449: getDocument resolves, or its rejection is rethrown
OpenDocument ==
  /\ pc = "open"
  /\ IF pdfData.opens
     THEN /\ pc' = "count"
          /\ numPages' = Len(pdfData.pages)
          /\ error' = error
     ELSE /\ pc' = "rejected"
          /\ error' = "Failed to open PDF: " \o pdfData.reason
          /\ numPages' = numPages
  /\ UNCHANGED << pdfData, i, allPageRows, fullText, period, properties, result, parsedPages >>
  /\ UNCHANGED pageVars
  /\ UNCHANGED callVars

CheckPages_noZeroCheck ==
  /\ pc = "count"
  /\ pc' = "extract" /\ error' = error /\ i' = 1
  /\ UNCHANGED << pdfData, numPages, allPageRows, fullText, period, properties, result,
                  parsedPages >>
  /\ UNCHANGED pageVars
  /\ UNCHANGED callVars

\* lines 451-456
CheckPages ==
  /\ pc = "count"
  /\ IF numPages = 0
     THEN pc' = "rejected" /\ error' = "PDF has no pages" /\ i' = i
     ELSE pc' = "extract" /\ error' = error /\ i' = 1
  /\ UNCHANGED << pdfData, numPages, allPageRows, fullText, period, properties, result,
                  parsedPages >>
  /\ UNCHANGED pageVars
  /\ UNCHANGED callVars

\* lines 458-463, one turn of the loop: a rejection of getPage or getTextContent
\* is not caught and rejects parseOwnerPacket
ExtractPage ==
  /\ pc = "extract"
  /\ i <= numPages
  /\ IF pdfData.failPage = i
     THEN /\ pc' = "rejected"
          /\ error' = "page text unavailable"
          /\ UNCHANGED << i, allPageRows, fullText >>
     ELSE LET rows == extractPageRows(pdfData.pages[i])
          IN  /\ allPageRows' = Append(allPageRows, rows)
              /\ fullText' = fullText \o rowsText(rows, <<"\n">>) \o <<"\n","-","-","-","P","A","G","E","-","-","-","\n">>
              /\ i' = i + 1
              /\ UNCHANGED << pc, error >>
  /\ UNCHANGED << pdfData, numPages, period, properties, result, parsedPages >>
  /\ UNCHANGED pageVars
  /\ UNCHANGED callVars

DetectPeriod_fromFirstPage ==
  /\ pc = "extract"
  /\ i > numPages
  /\ period' = detectStatementPeriod(fullText)
  /\ i' = 1
  /\ pc' = "pages"
  /\ UNCHANGED << pdfData, error, numPages, allPageRows, fullText, properties, result,
                  parsedPages >>
  /\ UNCHANGED pageVars
  /\ UNCHANGED callVars

\* lines 465-470
DetectPeriod ==
  /\ pc = "extract"
  /\ i > numPages
  /\ period' = detectStatementPeriod(fullText)
  /\ i' = IF numPages > 1 THEN 2 ELSE 1
  /\ pc' = "pages"
  /\ UNCHANGED << pdfData, error, numPages, allPageRows, fullText, properties, result,
                  parsedPages >>
  /\ UNCHANGED pageVars
  /\ UNCHANGED callVars

isConsolidated(rows) ==
  LET pageText == toLowerCase(rowsText(rows, <<" ">>))
  IN  includes(pageText, <<"c","o","n","s","o","l","i","d","a","t","e","d"," ","s","u","m","m","a","r","y">>) \/ includes(pageText, <<"c","o","n","s","o","l","i","d","a","t","e","d"," ","o","w","n","e","r">>)

\* lines 472-479: a consolidated page is skipped
SkipPage ==
  /\ pc = "pages"
  /\ i <= numPages
  /\ isConsolidated(allPageRows[i])
  /\ i' = i + 1
  /\ UNCHANGED << pdfData, pc, error, numPages, allPageRows, fullText, period, properties,
                  result, parsedPages >>
  /\ UNCHANGED pageVars
  /\ UNCHANGED callVars

BeginPage_keepsMode ==
  /\ pc = "pages"
  /\ i <= numPages
  /\ ~isConsolidated(allPageRows[i])
  /\ address' = extractPropertyAddress(allPageRows[i])
  /\ transactions' = <<>>
  /\ cashSummary' = NoSummary
  /\ r' = 1
  /\ txRows' = <<>>
  /\ parsedPages' = parsedPages \cup {i}
  /\ pc' = "rows"
  /\ UNCHANGED << pdfData, error, numPages, i, allPageRows, fullText, period, properties,
                  result, inTransactionTable >>
  /\ UNCHANGED callVars

\* lines 481, 179-185: parsePropertyPage is entered
\* the cash summary of the page before is kept
BeginPage_keepsSummary ==
  /\ pc = "pages"
  /\ i <= numPages
  /\ ~isConsolidated(allPageRows[i])
  /\ address' = extractPropertyAddress(allPageRows[i])
  /\ transactions' = <<>>
  /\ inTransactionTable' = FALSE
  /\ r' = 1
  /\ txRows' = <<>>
  /\ parsedPages' = parsedPages \cup {i}
  /\ pc' = "rows"
  /\ UNCHANGED << pdfData, error, numPages, i, allPageRows, fullText, period, properties,
                  result, cashSummary >>
  /\ UNCHANGED callVars

BeginPage ==
  /\ pc = "pages"
  /\ i <= numPages
  /\ ~isConsolidated(allPageRows[i])
  /\ address' = extractPropertyAddress(allPageRows[i])
  /\ transactions' = <<>>
  /\ inTransactionTable' = FALSE
  /\ cashSummary' = NoSummary
  /\ r' = 1
  /\ txRows' = <<>>
  /\ parsedPages' = parsedPages \cup {i}
  /\ pc' = "rows"
  /\ UNCHANGED << pdfData, error, numPages, i, allPageRows, fullText, period, properties,
                  result >>
  /\ UNCHANGED callVars

\* lines 185-392, one turn of the loop over the rows
ParseRow ==
  /\ pc = "rows"
  /\ r <= Len(allPageRows[i])
  /\ LET rows == allPageRows[i]
         text == rowToText(rows[r])
         textLower == toLowerCase(text)
         pushed == rowTransactions(rows[r], text)
     IN  IF isSummaryMarker(textLower)
         THEN /\ cashSummary' = cashSummaryAfter(rows, r, cashSummary)
              /\ UNCHANGED << inTransactionTable, transactions, txRows >>
         ELSE IF isTableHeader(textLower)
         THEN /\ inTransactionTable' = TRUE
              /\ UNCHANGED << cashSummary, transactions, txRows >>
         ELSE IF ~inTransactionTable
         THEN UNCHANGED << cashSummary, inTransactionTable, transactions, txRows >>
         ELSE /\ transactions' = transactions \o pushed
              /\ txRows' = txRows \o [k \in 1..Len(pushed) |-> r]
              /\ UNCHANGED << cashSummary, inTransactionTable >>
  /\ r' = r + 1
  /\ UNCHANGED << pdfData, pc, error, numPages, i, allPageRows, fullText, period, properties,
                  address, result, parsedPages >>
  /\ UNCHANGED callVars

EndPage_keepsAll ==
  /\ pc = "rows"
  /\ r > Len(allPageRows[i])
  /\ properties' = Append(properties, [ propertyAddress |-> address,
                                        cashSummary     |-> cashSummary,
                                        transactions    |-> transactions ])
  /\ i' = i + 1
  /\ pc' = "pages"
  /\ UNCHANGED << pdfData, error, numPages, allPageRows, fullText, period, result,
                  parsedPages >>
  /\ UNCHANGED pageVars
  /\ UNCHANGED callVars

\* lines 394-398, 482-484: the page's result is kept or dropped
EndPage ==
  /\ pc = "rows"
  /\ r > Len(allPageRows[i])
  /\ properties' =
       IF Len(transactions) > 0 \/ address # Null
       THEN Append(properties, [ propertyAddress |-> address,
                                 cashSummary     |-> cashSummary,
                                 transactions    |-> transactions ])
       ELSE properties
  /\ i' = i + 1
  /\ pc' = "pages"
  /\ UNCHANGED << pdfData, error, numPages, allPageRows, fullText, period, result,
                  parsedPages >>
  /\ UNCHANGED pageVars
  /\ UNCHANGED callVars

\* lines 487-521
Return ==
  /\ pc = "pages"
  /\ i > numPages
  /\ LET allTransactions == flatten(properties)
     IN  result' = [ period          |-> period,
                     properties      |-> properties,
                     allTransactions |-> allTransactions,
                     summary         |-> summaryOf(properties, allTransactions) ]
  /\ pc' = "done"
  /\ UNCHANGED << pdfData, error, numPages, i, allPageRows, fullText, period, properties,
                  parsedPages >>
  /\ UNCHANGED pageVars
  /\ UNCHANGED callVars

Next ==
  \/ OpenDocument
  \/ CheckPages
  \/ ExtractPage
  \/ DetectPeriod
  \/ SkipPage
  \/ BeginPage
  \/ ParseRow
  \/ EndPage
  \/ Return

Spec == Init /\ [][Next]_vars

(***************************************************************************)
(* parseOwnerPacket invoked again and again.  Every variable of the code   *)
(* is a local of the invocation (443, 451, 455, 456, 466, 469, 180-183),   *)
(* so an invocation starts with all of them fresh.                         *)
(***************************************************************************)
MaxCalls == 3

\* the documents given to the repeated invocations
RepeatDocuments ==
  { [opens |-> TRUE, reason |-> "Invalid PDF structure",
     pages |-> <<FrontPage, ScenarioPage>>, failPage |-> 0],
    [opens |-> TRUE, reason |-> "Invalid PDF structure",
     pages |-> <<ScenarioPage, OwnerCopyPage, LedgerPage>>, failPage |-> 0],
    [opens |-> TRUE, reason |-> "Invalid PDF structure",
     pages |-> <<FrontPage, StatementPage>>, failPage |-> 2],
    [opens |-> FALSE, reason |-> "Invalid PDF structure", pages |-> <<>>, failPage |-> 0] }

InitRepeated ==
  /\ pdfData \in RepeatDocuments
  /\ pc = "open"
  /\ error = ""
  /\ numPages = 0
  /\ i = 0
  /\ allPageRows = <<>>
  /\ fullText = <<>>
  /\ period = Null
  /\ properties = <<>>
  /\ address = Null
  /\ transactions = <<>>
  /\ inTransactionTable = FALSE
  /\ cashSummary = NoSummary
  /\ r = 0
  /\ result = Null
  /\ parsedPages = {}
  /\ txRows = <<>>
  /\ calls = 1
  /\ outcomes = {}
  /\ called = NoCall
  /\ returned = Null

Invoke_keepsProperties ==
  /\ pc \in {"done", "rejected"}
  /\ calls < MaxCalls
  /\ outcomes' = outcomes \cup {[input |-> pdfData, result |-> result, error |-> error]}
  /\ calls' = calls + 1
  /\ UNCHANGED << called, returned >>
  /\ pdfData' \in RepeatDocuments
  /\ pc' = "open"
  /\ error' = ""
  /\ numPages' = 0
  /\ i' = 0
  /\ allPageRows' = <<>>
  /\ fullText' = <<>>
  /\ period' = Null
  /\ address' = Null
  /\ transactions' = <<>>
  /\ inTransactionTable' = FALSE
  /\ cashSummary' = NoSummary
  /\ r' = 0
  /\ result' = Null
  /\ parsedPages' = {}
  /\ txRows' = <<>>
  /\ UNCHANGED properties

\* the invocation has returned or thrown, and parseOwnerPacket is called again
Invoke ==
  /\ pc \in {"done", "rejected"}
  /\ calls < MaxCalls
  /\ outcomes' = outcomes \cup {[input |-> pdfData, result |-> result, error |-> error]}
  /\ calls' = calls + 1
  /\ UNCHANGED << called, returned >>
  /\ pdfData' \in RepeatDocuments
  /\ pc' = "open"
  /\ error' = ""
  /\ numPages' = 0
  /\ i' = 0
  /\ allPageRows' = <<>>
  /\ fullText' = <<>>
  /\ period' = Null
  /\ properties' = <<>>
  /\ address' = Null
  /\ transactions' = <<>>
  /\ inTransactionTable' = FALSE
  /\ cashSummary' = NoSummary
  /\ r' = 0
  /\ result' = Null
  /\ parsedPages' = {}
  /\ txRows' = <<>>

NextRepeated ==
  \/ OpenDocument
  \/ CheckPages
  \/ ExtractPage
  \/ DetectPeriod
  \/ SkipPage
  \/ BeginPage
  \/ ParseRow
  \/ EndPage
  \/ Return
  \/ Invoke

SpecRepeated == InitRepeated /\ [][NextRepeated]_vars

(***************************************************************************)
(* parseOwnerPacket on one-page documents made of freely ordered           *)
(* fragments: the inputs of extractPageRows and of the amount columns.     *)
(***************************************************************************)
MaxFragments == 3

MaxAmounts == 3

\* a fragment as the PDF layer reports it, at (tx, ty) in tenths of a unit
At(str, tx, ty) == [str |-> str, tx |-> tx, ty |-> ty, width |-> 0]

\* fragments on the lines y = 700, 702, 704, 710 and 712, one of them blank
LooseFragments ==
  { At(<<"a">>, 1000, 7000), At(<<"e">>, 3000, 7004), At(<<" ","b"," ">>, 2004, 7020),
    At(<<"c">>, 500, 7040), At(<<"d">>, 1000, 7100), At(<<" "," ">>, 100, 7000),
    At(<<"C","o","n","s","o","l","i","d","a","t","e","d"," ","S","u","m","m","a","r","y">>, 300, 7120) }

\* the pages of up to MaxFragments fragments, in every order
FragmentPages == SeqsUpTo(LooseFragments, MaxFragments)

\* the money fragments of a ledger row, each in its column
AmountFragments ==
  { At(<<"-","2","0",".","0","0">>, 3000, 6800), At(<<"$","1","5","0",".","0","0">>, 4200, 6800), At(<<"$","5",".","0","0">>, 4400, 6800),
    At(<<"(","5","0",".","0","0",")">>, 4800, 6800), At(<<"$","6","5","0",".","0","0">>, 5400, 6800) }

\* the sequences of 1..MaxAmounts different money fragments, in every order
AmountLists ==
  { s \in SeqsUpTo(AmountFragments, MaxAmounts) :
      s # <<>> /\ \A a \in 1..Len(s) : \A b \in 1..Len(s) : s[a] = s[b] => a = b }

\* what the Type column of the row holds
TypeTexts ==
  { <<"R","e","n","t"," ","I","n","c","o","m","e">>, <<"B","i","l","l">>, <<"O","w","n","e","r"," ","D","i","s","t","r","i","b","u","t","i","o","n">>, <<"M","a","n","a","g","e","m","e","n","t"," ","F","e","e","s">>, <<"C","R","E","D","I","T">>,
    <<"M","i","s","c">> }

\* a page with the header of the table and one row: date, payee, type, amounts
AmountPage(type, amounts) ==
  Page(<< TableHeaderRow >>)
    \o << At(<<"0","1","/","1","5","/","2","0","2","6">>, 300, 6800), At(<<"J","o","h","n"," ","D","o","e">>, 900, 6800), At(type, 1800, 6800) >>
    \o amounts

AmountPages == { AmountPage(t, s) : t \in TypeTexts, s \in AmountLists }

\* pages with a label row of the cash summary up to MaxGap rows below the row
\* 'Property Cash Summary', or below no such row
MaxGap == 10

FillerRow == << F(<<"S","t","a","t","e","m","e","n","t"," ","d","e","t","a","i","l">>, 30) >>

BareLabelRow == << F(<<"E","n","d","i","n","g"," ","C","a","s","h"," ","B","a","l","a","n","c","e">>, 30) >>

LabelRows == { BeginningRow, CashInRow, CashOutRow, BareLabelRow }

SummaryPages ==
  { Page(lead \o [k \in 1..g |-> FillerRow] \o << label >>) :
      lead \in { << SummaryRow >>, <<>> }, g \in 0..MaxGap, label \in LabelRows }

\* pages with the header of the table and a row that begins with a date or
\* with another text, above or below the header, with or without a payee
DateFragments ==
  { <<"0","1","/","1","5","/","2","0","2","6">>, <<"1","/","5","/","2","6">>, <<"2","0","2","6","-","0","1","-","1","5">>, <<"1","-","5","-","2","6">>, <<"1","2","/","5","/","0","2","6">>, <<"0","1","/","1","5","/","2","0","2","6","x">>,
    <<"0","1","/","1","5","/","2","0","2","6","1">>, <<"1","/","5","/","2">>, <<"g","a","r","b","a","g","e">> }

MiddleFragments ==
  { << At(<<"J","o","h","n"," ","D","o","e">>, 900, 0) >>, <<>>, << At(<<"T","o","t","a","l"," ","d","u","e">>, 900, 0) >>,
    << At(<<"P","a","g","e"," ","2">>, 900, 0) >> }

DatePage(date, middle, ty) ==
  Page(<< TableHeaderRow >>)
    \o << At(date, 300, ty) >>
    \o [k \in 1..Len(middle) |-> At(middle[k].str, middle[k].tx, ty)]
    \o << At(<<"$","1","5","0",".","0","0">>, 4200, ty) >>

DatePages ==
  { DatePage(d, m, ty) : d \in DateFragments, m \in MiddleFragments, ty \in { 6800, 7200 } }

InputDocuments ==
  { [opens |-> TRUE, reason |-> "Invalid PDF structure", pages |-> <<p>>, failPage |-> 0] :
      p \in FragmentPages \cup AmountPages \cup SummaryPages \cup DatePages }

InitInputs ==
  /\ pdfData \in InputDocuments
  /\ pc = "open"
  /\ error = ""
  /\ numPages = 0
  /\ i = 0
  /\ allPageRows = <<>>
  /\ fullText = <<>>
  /\ period = Null
  /\ properties = <<>>
  /\ address = Null
  /\ transactions = <<>>
  /\ inTransactionTable = FALSE
  /\ cashSummary = NoSummary
  /\ r = 0
  /\ result = Null
  /\ parsedPages = {}
  /\ txRows = <<>>
  /\ calls = 1
  /\ outcomes = {}
  /\ called = NoCall
  /\ returned = Null

SpecInputs == InitInputs /\ [][Next]_vars

(***************************************************************************)
(* The helper functions called on their own                                *)
(***************************************************************************)
\* the arguments of parseDate: the separators, the lengths of the groups,
\* surrounding blanks, and texts that are no dates
DateTexts ==
  { m \o s \o d \o s \o y :
      m \in { <<"1">>, <<"0","1">>, <<"1","2">> }, d \in { <<"5">>, <<"1","5">> },
      s \in { <<"/">>, <<"-">> }, y \in { <<"2","6">>, <<"2","0","2","6">>, <<"0","2","6">> } }
  \cup { <<"2","0","2","6","-","0","1","-","1","5">>, <<"2","0","2","6","-","1","-","1","5">>, <<"g","a","r","b","a","g","e">>, <<>>, <<" ","0","1","/","1","5","/","2","0","2","6"," ">>,
         <<"0","1","/","1","5","/","2","0","2","6","x">>, <<"0","1","/","1","5","-","2","0","2","6">>, <<"0","0","1","/","1","5","/","2","0","2","6">>, <<"0","1","/","1","5","/","2","0","2","6","1">>, <<"1","/","5","/","2">> }

\* the arguments of parseMoney: an amount between an opening and a closing
\* mark, and texts that are no amounts
MoneyOpenings == { <<>>, <<"$">>, <<"(">>, <<"-">>, <<"(","$">>, <<" ","$"," ">> }

MoneyBodies == { <<"2","0",".","0","0">>, <<"1",",","2","3","4",".","5","6">>, <<"1","2","3","4",".","5","6">>, <<",",".","5","0">>, <<"7">> }

MoneyClosings == { <<>>, <<")">>, <<" ",")">> }

MoneyTexts ==
  { o \o b \o c : o \in MoneyOpenings, b \in MoneyBodies, c \in MoneyClosings }
  \cup { <<>>, <<"a","b","c">>, <<"$">>, <<"(",")">>, <<"(","a","b","c",")">>, <<".">>, <<"-">>, <<"1"," ","2","3","4",".","5","6">>, <<"1","2",".","5","x">> }

\* the arguments of categorizeTransaction: payee, type and description
Payees == { <<"J","o","h","n"," ","D","o","e">>, <<"H","o","m","e"," ","D","e","p","o","t">>, <<"R","E","N","T"," ","I","N","C","O","M","E"," ","L","L","C">>, <<"M","o","n","t","h","l","y">> }

Types == { <<"R","e","n","t"," ","I","n","c","o","m","e">>, <<"M","a","n","a","g","e","m","e","n","t"," ","F","e","e","s">>, <<"B","i","l","l">>, <<"r","e","n","t">>, <<"L","a","t","e"," ","F","e","e">>, <<>> }

Descriptions ==
  { <<>>, <<"p","l","u","m","b","i","n","g"," ","r","e","p","a","i","r">>, <<"M","a","n","a","g","e","m","e","n","t"," ","F","e","e"," ","f","o","r"," ","R","e","n","t"," ","P","a","y","m","e","n","t">>, <<"S","e","c","u","r","i","t","y"," ","D","e","p","o","s","i","t">>,
    <<"T","a","x"," ","s","e","r","v","i","c","e">> }

TransactionTexts ==
  { [payee |-> p, type |-> t, description |-> d] :
      p \in Payees, t \in Types, d \in Descriptions }

\* the arguments of extractPropertyAddress: up to MaxAddressRows rows without
\* an address, two of them replaced by rows of the dash form or the plain form
MaxAddressRows == 9

DashRowA == << F(<<"1","2","3"," ","M","a","i","n"," ","S","t"," ","-"," ","D","u","l","i","n"," ","-"," ","1","2","3"," ","M","a","i","n"," ","S","t",","," ","A","b","i","l","e","n","e",","," ","T","X"," ","7","9","6","0","5">>, 30) >>

DashRowB ==
  << F(<<"9"," ","E","l","m"," ","C","t">>, 30), F(<<EnDash>>, 80), F(<<"D","u","l","i","n">>, 95),
     F(<<EnDash>> \o <<" "," ","9"," ","E","l","m"," ","C","t",","," ","T","y","e">>, 130) >>

PlainAddressRowA == << F(<<"4","5","6"," ","O","a","k"," ","A","v","e",","," ","A","b","i","l","e","n","e">>, 30) >>

PlainAddressRowB == << F(<<"7","7"," ","P","i","n","e"," ","R","d">>, 30), F(<<"U","n","i","t"," ","2","-","B">>, 100) >>

NoAddressRow == << F(<<"O","w","n","e","r"," ","S","t","a","t","e","m","e","n","t">>, 30), F(<<"$","6","5","0",".","0","0">>, 540) >>

AddressRowLists ==
  { extractPageRows(Page([k \in 1..n |-> IF k = b THEN rowB ELSE IF k = a THEN rowA ELSE NoAddressRow])) :
      n \in 0..MaxAddressRows, a \in 0..MaxAddressRows, b \in 0..MaxAddressRows,
      rowA \in { DashRowA, PlainAddressRowA }, rowB \in { DashRowB, PlainAddressRowB } }

\* the arguments of rowToText: rows of up to MaxItems fragments in the order
\* of their x, with a width or with width 0
MaxItems == 3

RowItems ==
  { [text |-> t, x |-> x, y |-> 700, width |-> w] :
      t \in { <<"a","b">>, <<"c">> }, x \in { 0, 10, 16, 26, 41 }, w \in { 0, 6 } }

TextRows ==
  { row \in SeqsUpTo(RowItems, MaxItems) :
      \A k \in 1..(Len(row) - 1) : row[k].x <= row[k + 1].x }

\* the arguments of detectStatementPeriod: a text before, and a text with a
\* range of two dates, of two dated phrases that name no month, or without one
TextsBefore ==
  { <<>>, <<"O","w","n","e","r"," ","S","t","a","t","e","m","e","n","t"," "," ">>, <<"I","n","v","o","i","c","e"," ","1","2",","," ","2","0","2","5"," ","-"," ","R","e","c","e","i","p","t"," ","1","5",","," ","2","0","2","5"," ">> }

RangeTexts ==
  { <<"J","a","n"," ","0","1",","," ","2","0","2","6"," ","-"," ","J","a","n"," ","3","1",","," ","2","0","2","6">>,
    <<"D","E","C","E","M","B","E","R"," ","1"," ","2","0","2","5">> \o <<" ", EnDash, " ">> \o <<"f","e","b","r","u","a","r","y"," ","2","8",","," ","2","0","2","6"," ","P","a","g","e"," ","1">>,
    <<"S","e","p","t"," ","0","1",","," ","2","0","2","6"," ","-"," ","S","e","p","t"," ","3","0",","," ","2","0","2","6">>,
    <<"P","a","g","e"," ","1",","," ","2","0","2","6"," ","-"," ","P","a","g","e"," ","2",","," ","2","0","2","6">>,
    <<"M","a","r"," ","1",","," ","2","0","2","6","-","M","a","r"," ","3","1",","," ","2","0","2","6"," ","a","n","d"," ","A","p","r"," ","1",","," ","2","0","2","6"," ","-"," ","A","p","r"," ","3","0",","," ","2","0","2","6">>,
    <<"J","a","n"," ","0","1",","," ","2","0","2","6"," ","t","o"," ","J","a","n"," ","3","1",","," ","2","0","2","6">>,
    <<"n","o"," ","p","e","r","i","o","d"," ","h","e","r","e">> }

PeriodTexts == { b \o t : b \in TextsBefore, t \in RangeTexts }

\* the calls of fn with one of args
CallsOf(fn, args) == { [fn |-> fn, arg |-> a] : a \in args }

InitFunctions ==
  /\ \/ called \in CallsOf("parseDate", DateTexts)
     \/ called \in CallsOf("parseMoney", MoneyTexts)
     \/ called \in CallsOf("categorizeTransaction", TransactionTexts)
     \/ called \in CallsOf("extractPropertyAddress", AddressRowLists)
     \/ called \in CallsOf("rowToText", TextRows)
     \/ called \in CallsOf("detectStatementPeriod", PeriodTexts)
  /\ returned = Null
  /\ pc = "call"
  /\ pdfData = [opens |-> FALSE, reason |-> "", pages |-> <<>>, failPage |-> 0]
  /\ error = ""
  /\ numPages = 0
  /\ i = 0
  /\ allPageRows = <<>>
  /\ fullText = <<>>
  /\ period = Null
  /\ properties = <<>>
  /\ address = Null
  /\ transactions = <<>>
  /\ inTransactionTable = FALSE
  /\ cashSummary = NoSummary
  /\ r = 0
  /\ result = Null
  /\ parsedPages = {}
  /\ txRows = <<>>
  /\ calls = 1
  /\ outcomes = {}

\* what a call leaves alone: everything of parseOwnerPacket
parserVars ==
  << pdfData, error, numPages, i, allPageRows, fullText, period, properties, address,
     transactions, inTransactionTable, cashSummary, r, result, parsedPages, txRows,
     calls, outcomes >>

CallParseDate ==
  /\ pc = "call"
  /\ called.fn = "parseDate"
  /\ returned' = parseDate(called.arg)
  /\ pc' = "returned"
  /\ UNCHANGED << called, parserVars >>

CallParseMoney ==
  /\ pc = "call"
  /\ called.fn = "parseMoney"
  /\ returned' = parseMoney(called.arg)
  /\ pc' = "returned"
  /\ UNCHANGED << called, parserVars >>

CallCategorizeTransaction ==
  /\ pc = "call"
  /\ called.fn = "categorizeTransaction"
  /\ returned' = categorizeTransaction(called.arg)
  /\ pc' = "returned"
  /\ UNCHANGED << called, parserVars >>

CallExtractPropertyAddress ==
  /\ pc = "call"
  /\ called.fn = "extractPropertyAddress"
  /\ returned' = extractPropertyAddress(called.arg)
  /\ pc' = "returned"
  /\ UNCHANGED << called, parserVars >>

CallRowToText ==
  /\ pc = "call"
  /\ called.fn = "rowToText"
  /\ returned' = rowToText(called.arg)
  /\ pc' = "returned"
  /\ UNCHANGED << called, parserVars >>

CallDetectStatementPeriod ==
  /\ pc = "call"
  /\ called.fn = "detectStatementPeriod"
  /\ returned' = detectStatementPeriod(called.arg)
  /\ pc' = "returned"
  /\ UNCHANGED << called, parserVars >>

NextFunctions ==
  \/ CallParseDate
  \/ CallParseMoney
  \/ CallCategorizeTransaction
  \/ CallExtractPropertyAddress
  \/ CallRowToText
  \/ CallDetectStatementPeriod

SpecFunctions == InitFunctions /\ [][NextFunctions]_vars

(***************************************************************************)
(* Properties of the parser                                                *)
(***************************************************************************)
\* the rows of the page parsePropertyPage is working on
pageRows == allPageRows[i]

\* the texts of the fragments of a row, left to right
fragmentTexts(row) == [k \in 1..Len(row) |-> row[k].text]

\* the texts of the rows of a page, top to bottom
rowTexts(rows) == [k \in 1..Len(rows) |-> rowToText(rows[k])]

\* C1: the failure of one page never aborts the whole parse: parseOwnerPacket
\* is rejected only when the document cannot be opened or has no pages.
C1_PageFailureIsolated == pc = "rejected" => (~pdfData.opens \/ numPages = 0)

\* C2: a document that cannot be opened fails with 'Failed to open PDF: <reason>',
\* an opened document of zero pages fails with 'PDF has no pages'; in both cases
\* nothing is returned, no page is extracted and no page is parsed.
C2_DocumentLevelFatal ==
  /\ (~pdfData.opens /\ pc # "open") =>
       /\ pc = "rejected"
       /\ error = "Failed to open PDF: " \o pdfData.reason
  /\ (pdfData.opens /\ Len(pdfData.pages) = 0 /\ pc \notin {"open", "count"}) =>
       /\ pc = "rejected"
       /\ error = "PDF has no pages"
  /\ (~pdfData.opens \/ Len(pdfData.pages) = 0) =>
       /\ result = Null
       /\ allPageRows = <<>>
       /\ parsedPages = {}
       /\ properties = <<>>

C2_ZeroPagesRejected ==
  pc = "rejected" /\ pdfData.opens /\ numPages = 0 /\ error = "PDF has no pages"

\* the first page of the scenario: 'Consolidated Summary' and no table marker
scenarioFirstPage(rows) ==
  /\ includes(rowsText(rows, <<" ">>), <<"C","o","n","s","o","l","i","d","a","t","e","d"," ","S","u","m","m","a","r","y">>)
  /\ \A k \in 1..Len(rows) : ~isTableHeader(toLowerCase(rowToText(rows[k])))

\* the rows the scenario names on its second page, top to bottom
scenarioBlock ==
  << <<"1","2","3"," ","M","a","i","n"," ","S","t"," ","-"," ","D","u","l","i","n"," ","-"," ","1","2","3"," ","M","a","i","n"," ","S","t",","," ","A","b","i","l","e","n","e",","," ","T","X"," ","7","9","6","0","5">>,
     <<"P","r","o","p","e","r","t","y"," ","C","a","s","h"," ","S","u","m","m","a","r","y">>,
     <<"B","e","g","i","n","n","i","n","g"," ","C","a","s","h"," ","B","a","l","a","n","c","e"," ","$","5","0","0",".","0","0">>,
     <<"E","n","d","i","n","g"," ","C","a","s","h"," ","B","a","l","a","n","c","e"," ","$","6","5","0",".","0","0">> >>

scenarioFragments == << <<"0","1","/","1","5","/","2","0","2","6">>, <<"J","o","h","n"," ","D","o","e">>, <<"R","e","n","t"," ","I","n","c","o","m","e">>, <<"$","1","5","0",".","0","0">>, <<"$","6","5","0",".","0","0">> >>

scenarioTableHeader ==
  << <<"D","a","t","e">>, <<"P","a","y","e","e","/","P","a","y","e","r">>, <<"T","y","p","e">>, <<"R","e","f","e","r","e","n","c","e">>, <<"D","e","s","c","r","i","p","t","i","o","n">>, <<"C","a","s","h"," ","I","n">>,
     <<"C","a","s","h"," ","O","u","t">>, <<"B","a","l","a","n","c","e">> >>

\* the document of the scenario with exactly the rows it names
scenarioAsStated ==
  /\ Len(allPageRows) = 2
  /\ scenarioFirstPage(allPageRows[1])
  /\ Len(allPageRows[2]) = 5
  /\ SubSeq(rowTexts(allPageRows[2]), 1, 4) = scenarioBlock
  /\ fragmentTexts(allPageRows[2][5]) = scenarioFragments

\* the same document with the header row of the table above the transaction row
scenarioWithTableHeader ==
  /\ Len(allPageRows) = 2
  /\ scenarioFirstPage(allPageRows[1])
  /\ Len(allPageRows[2]) = 6
  /\ SubSeq(rowTexts(allPageRows[2]), 1, 4) = scenarioBlock
  /\ fragmentTexts(allPageRows[2][5]) = scenarioTableHeader
  /\ fragmentTexts(allPageRows[2][6]) = scenarioFragments

\* what the scenario expects of the ParseResult
scenarioResult(res) ==
  /\ Len(res.properties) = 1
  /\ Len(res.properties[1].transactions) = 1
  /\ res.properties[1].propertyAddress # Null
  /\ res.properties[1].propertyAddress.shortAddress = <<"1","2","3"," ","M","a","i","n"," ","S","t">>
  /\ DOMAIN res.properties[1].cashSummary = {"beginningBalance", "endingBalance"}
  /\ res.properties[1].cashSummary.beginningBalance = 50000
  /\ res.properties[1].cashSummary.endingBalance = 65000
  /\ res.properties[1].transactions[1].cashIn = 15000
  /\ res.properties[1].transactions[1].cashOut = 0
  /\ Len(res.allTransactions) = 1
  /\ res.allTransactions[1].category = "rent"
  /\ res.allTransactions[1].isIncome

\* C3 as stated: the two-page scenario document, whose second page holds the
\* property header row, the cash summary block and the one transaction row,
\* yields one property with its address, both balances and one rent transaction.
C3_ScenarioAsStated == (pc = "done" /\ scenarioAsStated) => scenarioResult(result)

\* C3: the two-page scenario document whose second page holds the property
\* header row, the cash summary block, the header row of the transaction table
\* and below it the one transaction row yields one property with shortAddress
\* '123 Main St', beginningBalance 500, endingBalance 650 and exactly one
\* transaction with cashIn 150, cashOut 0, category 'rent' and isIncome true.
C3_ScenarioWithTableHeader == (pc = "done" /\ scenarioWithTableHeader) => scenarioResult(result)

C3_ScenarioParsed == pc = "done" /\ scenarioWithTableHeader /\ Len(result.allTransactions) = 1

\* the row j of the page turns the transaction table mode on
switchesOn(rows, j) ==
  /\ ~isSummaryMarker(toLowerCase(rowToText(rows[j])))
  /\ isTableHeader(toLowerCase(rowToText(rows[j])))

\* C4 as stated: while a page is parsed the mode is on exactly when a row
\* already read contains 'payee' and 'type' or 'payee/payer', and every
\* transaction comes from a row below such a row.
C4_ModeAsStated ==
  pc = "rows" =>
    /\ inTransactionTable <=>
         \E j \in 1..(r - 1) : isTableHeader(toLowerCase(rowToText(pageRows[j])))
    /\ \A k \in 1..Len(txRows) :
         \E j \in 1..(txRows[k] - 1) : isTableHeader(toLowerCase(rowToText(pageRows[j])))

\* C4: the mode starts off for each page, is switched on by the first row that
\* contains 'payee' and 'type' or 'payee/payer' and does not contain 'property
\* cash summary', and stays on for the rest of the page; every transaction
\* comes from a row below that row, so a page without such a row has none.
C4_TableMode ==
  pc = "rows" =>
    /\ inTransactionTable <=> \E j \in 1..(r - 1) : switchesOn(pageRows, j)
    /\ \A k \in 1..Len(txRows) : \E j \in 1..(txRows[k] - 1) : switchesOn(pageRows, j)
    /\ Len(txRows) = Len(transactions)

C4_RowsAboveAndBelowMarker ==
  /\ pc = "rows"
  /\ inTransactionTable
  /\ Len(transactions) > 0
  /\ ~switchesOn(pageRows, 1)
  /\ \E j \in 1..(r - 1) : isSummaryMarker(toLowerCase(rowToText(pageRows[j])))

\* 'beginning cash balance' or 'ending cash balance' in a lower-cased text
namesBalance(textLower) ==
  \/ includes(textLower, <<"b","e","g","i","n","n","i","n","g"," ","c","a","s","h"," ","b","a","l","a","n","c","e">>)
  \/ includes(textLower, <<"e","n","d","i","n","g"," ","c","a","s","h"," ","b","a","l","a","n","c","e">>)

\* C5: no transaction is emitted for a row whose detected type or whose text
\* contains 'beginning cash balance' or 'ending cash balance', whatever the
\* letter case of the type and whatever other type was detected on the row.
C5_NoBalanceRows ==
  pc = "rows" =>
    \A k \in 1..Len(transactions) :
      /\ ~namesBalance(toLowerCase(transactions[k].type))
      /\ ~namesBalance(toLowerCase(rowToText(pageRows[txRows[k]])))

\* the number of fragments of a row that match the money pattern
moneyFragments(row) == Cardinality({ n \in 1..Len(row) : isMoneyText(row[n].text) })

\* C6: every emitted transaction comes from a row with at least one money
\* fragment, and its cashIn, cashOut and balance are numbers.
C6_NoAmountNoTransaction ==
  pc = "rows" =>
    \A k \in 1..Len(transactions) :
      /\ moneyFragments(pageRows[txRows[k]]) >= 1
      /\ transactions[k].cashIn \in Int
      /\ transactions[k].cashOut \in Int
      /\ transactions[k].balance \in Int

C6_GatedRowWithoutAmounts ==
  /\ pc = "rows"
  /\ \E j \in 1..(r - 1) :
       /\ \E h \in 1..(j - 1) : switchesOn(pageRows, h)
       /\ ~isSummaryMarker(toLowerCase(rowToText(pageRows[j])))
       /\ ~isTableHeader(toLowerCase(rowToText(pageRows[j])))
       /\ passesGate(pageRows[j], rowToText(pageRows[j]))
       /\ moneyFragments(pageRows[j]) = 0
       /\ \A k \in 1..Len(txRows) : txRows[k] # j

\* v is the magnitude of a money fragment of the row
magnitudeIn(row, v) ==
  \E n \in 1..Len(row) :
    /\ isMoneyText(row[n].text)
    /\ parseMoney(row[n].text) \in {v, -v}

\* C7: cashIn and cashOut of every emitted transaction are not negative, and
\* each is zero or the magnitude of a money fragment of its row.
C7_CashAbsolute ==
  pc = "rows" =>
    \A k \in 1..Len(transactions) :
      /\ transactions[k].cashIn >= 0
      /\ transactions[k].cashOut >= 0
      /\ transactions[k].cashIn = 0 \/ magnitudeIn(pageRows[txRows[k]], transactions[k].cashIn)
      /\ transactions[k].cashOut = 0 \/ magnitudeIn(pageRows[txRows[k]], transactions[k].cashOut)

C7_NegativeFormsStored ==
  /\ pc = "rows"
  /\ \E k \in 1..Len(transactions) :
       /\ transactions[k].cashOut = 5000
       /\ \E n \in 1..Len(pageRows[txRows[k]]) : pageRows[txRows[k]][n].text = <<"(","5","0",".","0","0",")">>
  /\ \E k \in 1..Len(transactions) :
       /\ transactions[k].cashIn = 2000
       /\ \E n \in 1..Len(pageRows[txRows[k]]) : pageRows[txRows[k]][n].text = <<"-","2","0",".","0","0">>

\* cashIn, cashOut, the cash summary fields and the totals are not negative
flowsNonNegative(res) ==
  /\ \A k \in 1..Len(res.allTransactions) :
       res.allTransactions[k].cashIn >= 0 /\ res.allTransactions[k].cashOut >= 0
  /\ \A p \in 1..Len(res.properties) :
       /\ \A f \in DOMAIN res.properties[p].cashSummary : res.properties[p].cashSummary[f] >= 0
       /\ \A k \in 1..Len(res.properties[p].transactions) :
            /\ res.properties[p].transactions[k].cashIn >= 0
            /\ res.properties[p].transactions[k].cashOut >= 0
  /\ res.summary.totalIncome >= 0
  /\ res.summary.totalExpenses >= 0
  /\ res.summary.totalDistributions >= 0

\* C8 as stated: no amount of the ParseResult is negative, balance included.
C8_AllAmountsNonNegative ==
  pc = "done" =>
    /\ flowsNonNegative(result)
    /\ \A k \in 1..Len(result.allTransactions) : result.allTransactions[k].balance >= 0

\* C8: cashIn and cashOut of every transaction, the cash summary fields and
\* the summary totals are not negative; balance is stored as parsed and is
\* negative when its fragment is written in parentheses or with a minus.
C8_FlowsNonNegative == pc = "done" => flowsNonNegative(result)

C8_NegativeFormsInResult ==
  /\ pc = "done"
  /\ \E k \in 1..Len(result.allTransactions) : result.allTransactions[k].balance < 0
  /\ \E p \in 1..Len(result.properties) :
       /\ "cashOut" \in DOMAIN result.properties[p].cashSummary
       /\ "ownerDisbursements" \in DOMAIN result.properties[p].cashSummary
  /\ result.summary.totalExpenses > 0

\* C9: isIncome iff cashIn > 0 and cashOut = 0; isExpense iff cashOut > 0;
\* isDistribution iff category is 'owner-distribution'; isIncome and isExpense
\* are never both true.
C9_Flags ==
  pc = "done" =>
    \A k \in 1..Len(result.allTransactions) :
      /\ result.allTransactions[k].isIncome <=>
           (result.allTransactions[k].cashIn > 0 /\ result.allTransactions[k].cashOut = 0)
      /\ result.allTransactions[k].isExpense <=> result.allTransactions[k].cashOut > 0
      /\ result.allTransactions[k].isDistribution <=>
           result.allTransactions[k].category = "owner-distribution"
      /\ ~(result.allTransactions[k].isIncome /\ result.allTransactions[k].isExpense)

C9_ExpenseAndDistribution ==
  /\ pc = "done"
  /\ \E k \in 1..Len(result.allTransactions) :
       result.allTransactions[k].isExpense /\ result.allTransactions[k].isDistribution
  /\ \E k \in 1..Len(result.allTransactions) :
       result.allTransactions[k].cashIn > 0 /\ result.allTransactions[k].cashOut > 0

\* C10 as stated: flowType is 'income' or 'expense', by the income/expense
\* split alone.
C10_TwoFlowTypes ==
  pc = "done" =>
    \A k \in 1..Len(result.allTransactions) :
      result.allTransactions[k].flowType =
        IF result.allTransactions[k].isIncome THEN "income" ELSE "expense"

\* C10: flowType is 'distribution' exactly for the transactions flagged
\* isDistribution, and otherwise 'income' or 'expense' by the split.
C10_FlowType ==
  pc = "done" =>
    \A k \in 1..Len(result.allTransactions) :
      result.allTransactions[k].flowType =
        IF result.allTransactions[k].isDistribution THEN "distribution"
        ELSE IF result.allTransactions[k].isIncome THEN "income" ELSE "expense"

C10_DistributionFlowType ==
  /\ pc = "done"
  /\ \E k \in 1..Len(result.allTransactions) :
       result.allTransactions[k].flowType = "distribution"
  /\ \E k \in 1..Len(result.allTransactions) : result.allTransactions[k].flowType = "income"
  /\ \E k \in 1..Len(result.allTransactions) : result.allTransactions[k].flowType = "expense"

\* the total a summary field stands for, added up transaction by transaction
RECURSIVE cashTotal(_, _)
cashTotal(txs, kind) ==
  IF txs = <<>> THEN 0
  ELSE cashTotal(Tail(txs), kind)
       + (IF kind = "income" /\ Head(txs).isIncome THEN Head(txs).cashIn
          ELSE IF kind = "expense" /\ Head(txs).isExpense /\ ~Head(txs).isDistribution
          THEN Head(txs).cashOut
          ELSE IF kind = "distribution" /\ Head(txs).isDistribution THEN Head(txs).cashOut
          ELSE 0)

\* C11: totalIncome is the sum of cashIn over the isIncome transactions,
\* totalExpenses the sum of cashOut over the isExpense transactions that are
\* not distributions, totalDistributions the sum of cashOut over the
\* distributions; totalProperties and totalTransactions are the two lengths.
C11_SummaryTotals ==
  pc = "done" =>
    /\ result.summary.totalIncome = cashTotal(result.allTransactions, "income")
    /\ result.summary.totalExpenses = cashTotal(result.allTransactions, "expense")
    /\ result.summary.totalDistributions = cashTotal(result.allTransactions, "distribution")
    /\ result.summary.totalProperties = Len(result.properties)
    /\ result.summary.totalTransactions = Len(result.allTransactions)

C11_AllTotalsPositive ==
  /\ pc = "done"
  /\ result.summary.totalIncome > 0
  /\ result.summary.totalExpenses > 0
  /\ result.summary.totalDistributions > 0
  /\ result.summary.totalProperties = 2
  /\ result.summary.totalTransactions > 4

\* the pages of the document that are to be parsed as property pages
isSelected(j, pageText) ==
  /\ j # 1 \/ numPages = 1
  /\ ~includes(pageText, <<"c","o","n","s","o","l","i","d","a","t","e","d"," ","s","u","m","m","a","r","y">>)
  /\ ~includes(pageText, <<"c","o","n","s","o","l","i","d","a","t","e","d"," ","o","w","n","e","r">>)

selectedPages ==
  { j \in 1..Len(allPageRows) :
      \A pageText \in {toLowerCase(rowsText(allPageRows[j], <<" ">>))} : isSelected(j, pageText) }

\* C12: page i of an n-page document is handed to parsePropertyPage iff
\* (i is not the first page or n = 1) and its lower-cased text contains neither
\* 'consolidated summary' nor 'consolidated owner'; stated whenever the loop
\* is between two pages and when the call has returned.
C12_PageSelection ==
  pc \in {"pages", "done"} =>
    \A selected \in {selectedPages} :
      /\ parsedPages \subseteq selected
      /\ pc = "done" => parsedPages = selected

C12_FirstAndMarkedPagesSkipped ==
  /\ pc = "done"
  /\ numPages = 3
  /\ ~isConsolidated(allPageRows[1])
  /\ isConsolidated(allPageRows[2])
  /\ parsedPages = {3}

\* what parsePropertyPage returns when the loop over the rows has ended
pageResult ==
  [ propertyAddress |-> address, cashSummary |-> cashSummary, transactions |-> transactions ]

\* the kept properties are those with a transaction or an address, and the
\* transactions of a property without address carry an empty propertyAddress
retainedProperties(res) ==
  /\ \A p \in 1..Len(res.properties) :
       /\ Len(res.properties[p].transactions) > 0 \/ res.properties[p].propertyAddress # Null
       /\ (res.properties[p].propertyAddress = Null /\ Len(res.properties[p].transactions) > 0)
            => \E k \in 1..Len(res.allTransactions) :
                 /\ res.allTransactions[k].propertyAddress = <<>>
                 /\ res.allTransactions[k].payee = res.properties[p].transactions[1].payee
  /\ \A k \in 1..Len(res.allTransactions) :
       \/ res.allTransactions[k].propertyAddress = <<>>
       \/ \E p \in 1..Len(res.properties) :
            /\ res.properties[p].propertyAddress # Null
            /\ res.properties[p].propertyAddress.shortAddress
                 = res.allTransactions[k].propertyAddress

\* C13: when parsePropertyPage has finished a page, its result is appended to
\* properties iff it has a transaction or a non-null address, with its address,
\* cash summary and transactions as parsed, and otherwise it is dropped without
\* an error; the transactions of a kept page without address appear in
\* allTransactions with an empty propertyAddress.
C13_Retention ==
  /\ [](pc = "done" => retainedProperties(result))
  /\ [][ (pc = "rows" /\ pc' = "pages") =>
           /\ properties' = IF Len(transactions) > 0 \/ address # Null
                            THEN Append(properties, pageResult)
                            ELSE properties
           /\ error' = "" ]_vars

C13_KeptWithoutAddressAndDropped ==
  /\ pc = "done"
  /\ Cardinality(parsedPages) = 2
  /\ Len(result.properties) = 1
  /\ result.properties[1].propertyAddress = Null
  /\ Len(result.allTransactions) > 0
  /\ result.allTransactions[1].propertyAddress = <<>>

\* the Transaction a CategorizedTransaction was made of
transactionPart(t) ==
  [ date |-> t.date, payee |-> t.payee, type |-> t.type, description |-> t.description,
    cashIn |-> t.cashIn, cashOut |-> t.cashOut, balance |-> t.balance ]

\* the transactions of the properties, one property after the other
RECURSIVE transactionsInOrder(_)
transactionsInOrder(props) ==
  IF props = <<>> THEN <<>>
  ELSE Head(props).transactions \o transactionsInOrder(Tail(props))

\* C14: allTransactions is the concatenation, in the order of properties, of
\* the transactions of each kept property, one CategorizedTransaction per
\* Transaction; the transactions of a page are in the order of its rows, top
\* first; a property is appended when its page ends and pages are taken in
\* ascending order.
C14_OrderPreserved ==
  /\ [](pc = "done" =>
          /\ result.properties = properties
          /\ [k \in 1..Len(result.allTransactions) |-> transactionPart(result.allTransactions[k])]
               = transactionsInOrder(result.properties))
  /\ [](pc = "rows" =>
          \A k \in 1..Len(txRows) : txRows[k] < r /\ (k > 1 => txRows[k - 1] < txRows[k]))
  /\ [][ /\ properties' # properties =>
              (pc = "rows" /\ properties' = Append(properties, pageResult) /\ i' = i + 1)
         /\ pc \in {"pages", "rows"} => i' >= i ]_vars

C14_TwoPropertiesWithTransactions ==
  /\ pc = "done"
  /\ Len(result.properties) = 2
  /\ Len(result.properties[1].transactions) >= 2
  /\ Len(result.properties[2].transactions) >= 1
  /\ transactionPart(result.allTransactions[1]) # transactionPart(result.allTransactions[2])

\* the outcome of the invocation that has just ended
outcome == [input |-> pdfData, result |-> result, error |-> error]

\* C15: two invocations of parseOwnerPacket on the same document end alike,
\* with structurally identical ParseResults or the same error, whatever
\* documents were parsed before or in between.
C15_Deterministic ==
  /\ \A a \in outcomes : \A b \in outcomes :
       a.input = b.input => (a.result = b.result /\ a.error = b.error)
  /\ pc \in {"done", "rejected"} =>
       \A a \in outcomes : a.input = pdfData => a = outcome

C15_SameDocumentAgain ==
  /\ pc = "done"
  /\ calls = 3
  /\ Len(result.allTransactions) > 0
  /\ \E a \in outcomes : a.input = pdfData
  /\ \E b \in outcomes : b.input # pdfData /\ b.result # Null

\* extractPageRows has just been applied to the first page
extracted == pc = "extract" /\ Len(allPageRows) = 1

near(items, a, b) ==
  IF items[a].y < items[b].y THEN items[b].y - items[a].y <= 3
  ELSE items[a].y - items[b].y <= 3

\* the fragments fall into groups: within 3 inside a group, further apart between groups
wellSeparated(items) ==
  \A a \in 1..Len(items) : \A b \in 1..Len(items) : \A c \in 1..Len(items) :
    (near(items, a, b) /\ near(items, b, c)) => near(items, a, c)

\* the row holds exactly the fragments with the indices in group
sameItems(row, items, group) ==
  /\ Len(row) = Cardinality(group)
  /\ \A n \in group :
       Cardinality({ k \in 1..Len(row) : row[k] = items[n] })
         = Cardinality({ m \in group : items[m] = items[n] })

\* one row per group, holding exactly the fragments of the group
rowPerGroup(items, rows) ==
  /\ Len(rows) = Cardinality({ { b \in 1..Len(items) : near(items, a, b) } : a \in 1..Len(items) })
  /\ \A a \in 1..Len(items) :
       \E k \in 1..Len(rows) :
         sameItems(rows[k], items, { b \in 1..Len(items) : near(items, a, b) })

\* C16: when the fragments of a page fall into groups that are more than 3
\* apart while the fragments of a group are within 3 of each other,
\* extractPageRows returns one row per group holding exactly the fragments of
\* that group, in whatever order the fragments were given.
C16_ClusteringOrderIndependent ==
  extracted =>
    \A items \in {pageItems(pdfData.pages[1])} :
      wellSeparated(items) => rowPerGroup(items, allPageRows[1])

\* three fragments, the first more than 3 below the second and within 3 of the third
twoGroupsLowerFirst(items, rows) ==
  /\ Len(items) = 3
  /\ wellSeparated(items)
  /\ items[1].y < items[2].y - 3
  /\ near(items, 1, 3)
  /\ Len(rows) = 2

C16_TwoGroupsLowerFirst ==
  /\ extracted
  /\ \E items \in {pageItems(pdfData.pages[1])} : twoGroupsLowerFirst(items, allPageRows[1])

\* the fragments among the first n that open a bucket: those with no bucket
\* opened before them whose key is within 3 of their y
RECURSIVE bucketOpeners(_, _)
bucketOpeners(items, n) ==
  IF n = 0 THEN {}
  ELSE IF \E m \in bucketOpeners(items, n - 1) : near(items, m, n)
  THEN bucketOpeners(items, n - 1)
  ELSE bucketOpeners(items, n - 1) \cup {n}

\* the opener of the bucket fragment n is put in: the first-opened one within 3
bucketOf(items, openers, n) ==
  CHOOSE m \in openers : near(items, m, n) /\ \A j \in openers : near(items, j, n) => m <= j

\* the opener of the k-th bucket from the top of the page
openerOfRow(items, openers, k) ==
  CHOOSE m \in openers : Cardinality({ j \in openers : items[j].y > items[m].y }) = k - 1

rowsOfBuckets(items, rows, openers) ==
  /\ Len(rows) = Cardinality(openers)
  /\ \A k \in 1..Len(rows) :
       /\ rows[k] # <<>>
       /\ sameItems(rows[k], items,
                    { n \in 1..Len(items) :
                        bucketOf(items, openers, n) = openerOfRow(items, openers, k) })
       /\ \A j \in 1..(Len(rows[k]) - 1) : rows[k][j].x <= rows[k][j + 1].x
       /\ k > 1 => items[openerOfRow(items, openers, k - 1)].y
                     > items[openerOfRow(items, openers, k)].y
  /\ items = <<>> => rows = <<>>

rowsShape(items, rows) ==
  \A openers \in {bucketOpeners(items, Len(items))} : rowsOfBuckets(items, rows, openers)

\* C17: extractPageRows returns one non-empty row per bucket, a fragment
\* being in the first-opened bucket whose key (the y of the fragment that
\* opened it) is within 3 of its y; the rows are in strictly descending order
\* of key, the fragments of a row in ascending x; every non-blank fragment is
\* in exactly one row, and a page without fragments yields no row.
C17_RowsShape ==
  extracted => \A items \in {pageItems(pdfData.pages[1])} : rowsShape(items, allPageRows[1])

\* three fragments in a chain that the order of arrival splits into two rows
chainSplit(items, rows) ==
  /\ Len(items) = 3
  /\ ~wellSeparated(items)
  /\ Len(rows) = 2
  /\ Len(rows[1]) = 2
  /\ rows[1][1].x < rows[1][2].x

C17_ChainSplitByOrder ==
  /\ extracted
  /\ \E items \in {pageItems(pdfData.pages[1])} : chainSplit(items, allPageRows[1])

\* the money fragments of a row
moneyOf(row) == SelectSeq(row, LAMBDA item : isMoneyText(item.text))

\* the n-th money fragment of a row counted from the left
nthFromLeft(money, n) ==
  money[CHOOSE k \in 1..Len(money) :
          Cardinality({ j \in 1..Len(money) : money[j].x < money[k].x }) = n - 1]

magnitude(v) == IF v < 0 THEN -v ELSE v

\* the income words of the type vocabulary, in a lower-cased type
hasIncomeWord(typeLower) ==
  \E w \in { <<"r","e","n","t">>, <<"i","n","c","o","m","e">>, <<"d","e","p","o","s","i","t">>, <<"l","a","t","e"," ","f","e","e">>, <<"c","r","e","d","i","t">>, <<"p","r","e","p","a","i","d">> } :
    includes(typeLower, w)

hasOutflowWord(typeLower) ==
  \E w \in { <<"b","i","l","l">>, <<"m","a","n","a","g","e","m","e","n","t">>, <<"o","w","n","e","r">> } : includes(typeLower, w)

\* lines 321-370 for a transaction: the signed amounts before line 388
classified(row, tx) == assignAmounts(amountsOf(row), toLowerCase(tx.type))

threeAmounts(tx, money, cash) ==
  Len(money) = 3 =>
    /\ cash.cashIn = parseMoney(nthFromLeft(money, 1).text)
    /\ cash.cashOut = parseMoney(nthFromLeft(money, 2).text)
    /\ cash.balance = parseMoney(nthFromLeft(money, 3).text)
    /\ tx.cashIn = magnitude(parseMoney(nthFromLeft(money, 1).text))
    /\ tx.cashOut = magnitude(parseMoney(nthFromLeft(money, 2).text))
    /\ tx.balance = parseMoney(nthFromLeft(money, 3).text)

\* C18: a transaction row with exactly three money fragments gets cashIn from
\* the leftmost, cashOut from the middle and balance from the rightmost, by
\* x-position, whatever the order of the fragments and the detected type; the
\* transaction stores the magnitudes of cashIn and cashOut.
C18_ThreeAmounts ==
  pc = "rows" =>
    \A k \in 1..Len(transactions) :
      \A money \in {moneyOf(pageRows[txRows[k]])} :
        threeAmounts(transactions[k], money, classified(pageRows[txRows[k]], transactions[k]))

C18_ThreeAmountsOutOfOrder ==
  /\ pc = "rows"
  /\ Len(transactions) = 1
  /\ Len(moneyOf(pageRows[txRows[1]])) = 3
  /\ transactions[1].type = <<"B","i","l","l">>
  /\ transactions[1].cashIn = 15000
  /\ transactions[1].cashOut = 5000
  /\ pdfData.pages[1][Len(pdfData.pages[1])].tx < pdfData.pages[1][Len(pdfData.pages[1]) - 1].tx

twoAmounts(tx, money, toCashIn, cash) ==
  Len(money) = 2 =>
    /\ cash.balance = parseMoney(nthFromLeft(money, 2).text)
    /\ cash.cashIn = IF toCashIn THEN parseMoney(nthFromLeft(money, 1).text) ELSE 0
    /\ cash.cashOut = IF toCashIn THEN 0 ELSE parseMoney(nthFromLeft(money, 1).text)
    /\ tx.balance = parseMoney(nthFromLeft(money, 2).text)
    /\ tx.cashIn = IF toCashIn THEN magnitude(parseMoney(nthFromLeft(money, 1).text)) ELSE 0
    /\ tx.cashOut = IF toCashIn THEN 0 ELSE magnitude(parseMoney(nthFromLeft(money, 1).text))

\* the left amount of two belongs to Cash In
leftIsCashIn(typeLower, money) ==
  \/ hasIncomeWord(typeLower)
  \/ /\ nthFromLeft(money, 2).x - nthFromLeft(money, 1).x > 100
     /\ ~hasOutflowWord(typeLower)

\* C19: of two money fragments the rightmost is the balance; the leftmost goes
\* to cashIn if the type contains an income word, otherwise to cashIn if the
\* x-gap is strictly greater than 100 and the type contains none of bill,
\* management, owner, otherwise to cashOut; the other field is 0; the
\* transaction stores the magnitude of the cash field.
C19_TwoAmounts ==
  pc = "rows" =>
    \A k \in 1..Len(transactions) :
      \A money \in {moneyOf(pageRows[txRows[k]])} :
        Len(money) = 2 =>
          twoAmounts(transactions[k], money,
                     leftIsCashIn(toLowerCase(transactions[k].type), money),
                     classified(pageRows[txRows[k]], transactions[k]))

C19_GapOfExactly100 ==
  /\ pc = "rows"
  /\ Len(transactions) = 1
  /\ transactions[1].type = <<>>
  /\ \E money \in {moneyOf(pageRows[txRows[1]])} :
       Len(money) = 2 /\ nthFromLeft(money, 2).x - nthFromLeft(money, 1).x = 100
  /\ transactions[1].cashOut = 500

oneAmount(tx, money, cash) ==
  Len(money) = 1 =>
    /\ cash.balance = 0
    /\ cash.cashIn = IF hasIncomeWord(toLowerCase(tx.type)) THEN parseMoney(money[1].text) ELSE 0
    /\ cash.cashOut = IF hasIncomeWord(toLowerCase(tx.type)) THEN 0 ELSE parseMoney(money[1].text)
    /\ tx.balance = 0
    /\ tx.cashIn = IF hasIncomeWord(toLowerCase(tx.type))
                   THEN magnitude(parseMoney(money[1].text)) ELSE 0
    /\ tx.cashOut = IF hasIncomeWord(toLowerCase(tx.type))
                    THEN 0 ELSE magnitude(parseMoney(money[1].text))

\* C20: a single money fragment goes to cashIn (cashOut and balance 0) if the
\* type contains an income word, as 'rent income' does, and to cashOut
\* (cashIn 0) otherwise.
C20_OneAmount ==
  pc = "rows" =>
    \A k \in 1..Len(transactions) :
      \A money \in {moneyOf(pageRows[txRows[k]])} :
        oneAmount(transactions[k], money, classified(pageRows[txRows[k]], transactions[k]))

C20_SingleCredit ==
  /\ pc = "rows"
  /\ Len(transactions) = 1
  /\ Len(moneyOf(pageRows[txRows[1]])) = 1
  /\ transactions[1].type = <<"C","R","E","D","I","T">>
  /\ transactions[1].cashIn = 2000
  /\ transactions[1].cashOut = 0

\* a call of fn with the argument arg has returned
returnedFrom(fn) == pc = "returned" /\ called.fn = fn

\* C21 (as stated): parseDate yields '2026-01-15' for '01/15/2026', '1/5/26'
\* and '2026-01-15', and the empty string for 'garbage'.
C21_DatesAsStated ==
  returnedFrom("parseDate") =>
    /\ called.arg \in { <<"0","1","/","1","5","/","2","0","2","6">>, <<"1","/","5","/","2","6">>, <<"2","0","2","6","-","0","1","-","1","5">> } => returned = <<"2","0","2","6","-","0","1","-","1","5">>
    /\ called.arg = <<"g","a","r","b","a","g","e">> => returned = <<>>

\* C21 (amended): parseDate yields '2026-01-15' for '01/15/2026' and for
\* '2026-01-15', '2026-01-05' for '1/5/26', and the empty string for 'garbage'.
C21_Dates ==
  returnedFrom("parseDate") =>
    /\ called.arg \in { <<"0","1","/","1","5","/","2","0","2","6">>, <<"2","0","2","6","-","0","1","-","1","5">> } => returned = <<"2","0","2","6","-","0","1","-","1","5">>
    /\ called.arg = <<"1","/","5","/","2","6">> => returned = <<"2","0","2","6","-","0","1","-","0","5">>
    /\ called.arg = <<"g","a","r","b","a","g","e">> => returned = <<>>

C21_ShortDateParsed ==
  /\ returnedFrom("parseDate")
  /\ called.arg = <<"1","/","5","/","2","6">>
  /\ returned = <<"2","0","2","6","-","0","1","-","0","5">>

\* the value in cents of an amount written without marks
bodyCents(body) ==
  IF body = <<"2","0",".","0","0">> THEN 2000
  ELSE IF body = <<",",".","5","0">> THEN 50
  ELSE IF body = <<"7">> THEN 700
  ELSE 123456

\* the value of an amount between an opening and a closing mark: negated in
\* parentheses and after a minus sign, 0 after an unmatched opening parenthesis
markedCents(opening, body, closing) ==
  IF "(" \in Range(opening)
  THEN IF ")" \in Range(closing) THEN -bodyCents(body) ELSE 0
  ELSE IF "-" \in Range(opening) THEN -bodyCents(body)
  ELSE bodyCents(body)

moneyValues(arg, value) ==
  /\ value \in Int
  /\ arg = <<"$","1",",","2","3","4",".","5","6">> => value = 123456
  /\ arg = <<"1","2","3","4",".","5","6">> => value = 123456
  /\ arg = <<"(","1",",","2","3","4",".","5","6",")">> => value = -123456
  /\ arg \in { <<>>, <<"a","b","c">>, <<"$">>, <<"(",")">>, <<"(","a","b","c",")">>, <<".">>, <<"-">> } => value = 0
  /\ \A o \in MoneyOpenings, b \in MoneyBodies, c \in MoneyClosings :
       arg = o \o b \o c => value = markedCents(o, b, c)

\* C22: parseMoney strips '$', commas and white space, negates a value in
\* parentheses, and returns 0 for the empty string and for a text that is no
\* number; every fragment the money pattern of the classifier accepts, one
\* with an opening parenthesis and no closing one included, gets a value.
C22_MoneyValues ==
  returnedFrom("parseMoney") => moneyValues(called.arg, returned)

C22_UnclosedParenthesis ==
  /\ returnedFrom("parseMoney")
  /\ called.arg = <<"(","2","0",".","0","0">>
  /\ isMoneyText(called.arg)
  /\ returned = 0

\* the categories of the rule list, and 'other'
Categories ==
  { "rent", "late-fee", "deposit", "management-fee", "owner-distribution", "plumbing",
    "electrical", "hvac", "appliance", "pest-control", "cleaning", "landscaping", "insurance",
    "taxes", "hoa", "legal", "utilities", "repair", "other" }

\* rule q has a keyword in text
ruleHits(text, q) == \E k \in DOMAIN rules[q].keywords : includes(text, rules[q].keywords[k])

firstMatch(text, category) ==
  /\ category \in Categories
  /\ category = "other" <=> \A q \in DOMAIN rules : ~ruleHits(text, q)
  /\ category # "other" =>
       \E q \in DOMAIN rules :
         /\ rules[q].category = category
         /\ ruleHits(text, q)
         /\ \A e \in 1..(q - 1) : ~ruleHits(text, e)
  /\ includes(text, <<"r","e","n","t"," ","i","n","c","o","m","e">>) => category = "rent"

\* the income rules come before every other rule
incomeRulesFirst ==
  /\ << rules[1].category, rules[2].category, rules[3].category >> = << "rent", "late-fee", "deposit" >>
  /\ \A q \in 4..Len(rules) : rules[q].category \notin { "rent", "late-fee", "deposit" }

\* C23: categorizeTransaction returns the category of the earliest rule of the
\* fixed list with a keyword in the lower-cased 'payee type description' text,
\* the income rules rent, late-fee, deposit coming first; 'other' if no rule
\* has one; always one tag of the fixed set.
C23_FirstMatchWins ==
  returnedFrom("categorizeTransaction") =>
    /\ incomeRulesFirst
    /\ \A text \in {toLowerCase(called.arg.payee \o <<" ">> \o called.arg.type \o <<" ">>
                                  \o called.arg.description)} :
         firstMatch(text, returned)

C23_RentBeforeManagementFee ==
  /\ returnedFrom("categorizeTransaction")
  /\ called.arg.payee = <<"R","E","N","T"," ","I","N","C","O","M","E"," ","L","L","C">>
  /\ called.arg.type = <<"M","a","n","a","g","e","m","e","n","t"," ","F","e","e","s">>
  /\ called.arg.description = <<"p","l","u","m","b","i","n","g"," ","r","e","p","a","i","r">>
  /\ returned = "rent"

\* the texts of the fragments of a row, and of the fragments it was read from
textsOf(row) == [k \in 1..Len(row) |-> row[k].text]

strsOf(fragments) == [k \in 1..Len(fragments) |-> trim(fragments[k].str)]

\* what each row with an address stands for
addressOfRow(texts) ==
  IF texts = strsOf(DashRowA)
  THEN [ shortAddress |-> <<"1","2","3"," ","M","a","i","n"," ","S","t">>, fullAddress |-> <<"1","2","3"," ","M","a","i","n"," ","S","t",","," ","A","b","i","l","e","n","e",","," ","T","X"," ","7","9","6","0","5">> ]
  ELSE IF texts = strsOf(DashRowB)
  THEN [ shortAddress |-> <<"9"," ","E","l","m"," ","C","t">>, fullAddress |-> <<"9"," ","E","l","m"," ","C","t",","," ","T","y","e">> ]
  ELSE IF texts = strsOf(PlainAddressRowA)
  THEN [ shortAddress |-> <<"4","5","6"," ","O","a","k"," ","A","v","e">>, fullAddress |-> <<"4","5","6"," ","O","a","k"," ","A","v","e",","," ","A","b","i","l","e","n","e">> ]
  ELSE [ shortAddress |-> <<"7","7"," ","P","i","n","e"," ","R","d">> \o <<"\t">> \o <<"U","n","i","t"," ","2">>,
         fullAddress  |-> <<"7","7"," ","P","i","n","e"," ","R","d">> \o <<"\t">> \o <<"U","n","i","t"," ","2","-","B">> ]

\* the rows among the first n of rows that are one of kinds
rowsAmong(rows, n, kinds) ==
  { k \in 1..Len(rows) : k <= n /\ \E kind \in kinds : textsOf(rows[k]) = strsOf(kind) }

earliest(S) == CHOOSE k \in S : \A j \in S : k <= j

addressByPrecedence(rows, dashRows, plainRows, found) ==
  IF dashRows # {} THEN found = addressOfRow(textsOf(rows[earliest(dashRows)]))
  ELSE IF plainRows # {} THEN found = addressOfRow(textsOf(rows[earliest(plainRows)]))
  ELSE found = Null

\* C24: extractPropertyAddress takes the earliest of the first 8 rows of the
\* dash form, even after an earlier row of the plain number-and-street form;
\* only without one, the earliest of the first 6 rows of the plain form; and
\* null if there is neither.
C24_AddressPrecedence ==
  returnedFrom("extractPropertyAddress") =>
    addressByPrecedence(called.arg,
                        rowsAmong(called.arg, 8, { DashRowA, DashRowB }),
                        rowsAmong(called.arg, 6, { PlainAddressRowA, PlainAddressRowB }),
                        returned)

C24_DashRowAfterPlainRow ==
  /\ returnedFrom("extractPropertyAddress")
  /\ Len(called.arg) = 9
  /\ textsOf(called.arg[1]) = strsOf(PlainAddressRowA)
  /\ textsOf(called.arg[8]) = strsOf(DashRowB)
  /\ returned.shortAddress = <<"9"," ","E","l","m"," ","C","t">>

\* the right edge of a fragment: x + width, or x + 5 * text length when the
\* width counts as missing
rightEdge(item, missing) ==
  item.x + (IF missing THEN 5 * Len(item.text) ELSE item.width)

\* what stands before fragment k of a row, given the right edge before it
separator(k, gap) ==
  IF k > 1 /\ gap > 15 THEN <<"\t">>
  ELSE IF k > 1 /\ gap > 5 THEN <<" ">>
  ELSE <<>>

\* the first k fragments of a row joined, a width of 0 counting as a width
RECURSIVE joinedAsStated(_, _)
joinedAsStated(row, k) ==
  IF k = 0 THEN <<>>
  ELSE joinedAsStated(row, k - 1)
         \o separator(k, row[k].x - (IF k = 1 THEN 0 ELSE rightEdge(row[k - 1], FALSE)))
         \o row[k].text

\* the first k fragments of a row joined, a width of 0 counting as missing
RECURSIVE joined(_, _)
joined(row, k) ==
  IF k = 0 THEN <<>>
  ELSE joined(row, k - 1)
         \o separator(k, row[k].x - (IF k = 1 THEN 0
                                     ELSE rightEdge(row[k - 1], row[k - 1].width = 0)))
         \o row[k].text

\* C26 (as stated): rowToText joins the texts in row order; before each
\* fragment but the first it puts a tab if the gap to the previous right edge
\* (x + width; x + 5 * text length when width is missing) is greater than 15,
\* a space if it is greater than 5, else nothing; an empty row gives ''.
C26_JoinedAsStated ==
  returnedFrom("rowToText") => returned = joinedAsStated(called.arg, Len(called.arg))

\* C26 (amended): the same, the right edge being x + 5 * text length also
\* when the width is 0.
C26_Joined ==
  returnedFrom("rowToText") => returned = joined(called.arg, Len(called.arg))

C26_ZeroWidthBeforeSmallGap ==
  /\ returnedFrom("rowToText")
  /\ Len(called.arg) = 2
  /\ called.arg[1] = [text |-> <<"a","b">>, x |-> 0, y |-> 700, width |-> 0]
  /\ called.arg[2].x = 16
  /\ called.arg[2].text = <<"c">>
  /\ returned = <<"a","b"," ","c">>

\* name is a key of the month lookup table, in any case
isMonthName(name) == \E k \in DOMAIN months : months[k][1] = toLowerCase(name)

\* the two dated phrases m of text both begin with a month name
betweenMonths(text, m) ==
  /\ m # <<>>
  /\ isMonthName(SubSeq(text, m[1][1], m[1][1] + m[1][2] - 1))
  /\ isMonthName(SubSeq(text, m[2][1], m[2][1] + m[2][2] - 1))

\* the positions of text where a range between two month names begins
monthRanges(text) == { k \in 1..Len(text) : betweenMonths(text, periodAt(text, k)) }

periodOfFirst(text, ranges, found) ==
  IF ranges = {} THEN found = Null
  ELSE found = periodFrom(text, periodAt(text, earliest(ranges)))

\* C27: detectStatementPeriod returns null when the text has no range
\* 'Month D, YYYY - Month D, YYYY' between two month names, and otherwise the
\* period of the first such range, its months taken from the lookup table; a
\* range whose words are no month names produces no period.
C27_PeriodOfFirstMonthRange ==
  returnedFrom("detectStatementPeriod") =>
    periodOfFirst(called.arg, monthRanges(called.arg), returned)

\* the label rows with an amount that stand for a field of the cash summary
fieldRows(f) ==
  IF f = "beginningBalance" THEN { BeginningRow }
  ELSE IF f = "cashIn" THEN { CashInRow }
  ELSE IF f = "cashOut" THEN { CashOutRow }
  ELSE {}

\* row j of rows is one of the fragment rows of kinds
isOneOf(rows, j, kinds) == \E kind \in kinds : textsOf(rows[j]) = strsOf(kind)

\* a row 'Property Cash Summary' already read, and a label row of field f with
\* an amount among the at most 9 rows after it
labelAfterMarker(rows, f, done) ==
  \E m \in 1..Len(rows) :
    /\ m < done
    /\ isOneOf(rows, m, { SummaryRow })
    /\ \E j \in (m + 1)..(m + 9) : j <= Len(rows) /\ isOneOf(rows, j, fieldRows(f))

\* the amount of the label row of each field
fieldCents(f) == IF f = "beginningBalance" THEN 50000 ELSE IF f = "cashIn" THEN 15000 ELSE 6500

\* C25: a field of the cash summary is present only if one of the at most 9
\* rows after a row 'Property Cash Summary' matches its label and holds an
\* amount, and then it is that amount; a label row 10 or more rows below, one
\* without an amount, or a page without the marker leaves the field absent.
C25_SummarySparse ==
  pc = "rows" =>
    \A f \in DOMAIN cashSummary :
      /\ labelAfterMarker(allPageRows[i], f, r)
      /\ cashSummary[f] = fieldCents(f)

C25_LabelNineRowsBelow ==
  /\ pc = "rows"
  /\ r > Len(allPageRows[i])
  /\ Len(allPageRows[i]) = 10
  /\ isOneOf(allPageRows[i], 1, { SummaryRow })
  /\ isOneOf(allPageRows[i], 10, { BeginningRow })
  /\ DOMAIN cashSummary = { "beginningBalance" }
  /\ cashSummary.beginningBalance = 50000

\* the state of parsePropertyPage before any row of a page is read
freshPage == [ inTransactionTable |-> FALSE, cashSummary |-> NoSummary, transactions |-> <<>> ]

\* the state after row n of rows, given the state before it and the row's text
afterRow(before, rows, n, text) ==
  IF isSummaryMarker(toLowerCase(text))
  THEN [ before EXCEPT !.cashSummary = cashSummaryAfter(rows, n, before.cashSummary) ]
  ELSE IF isTableHeader(toLowerCase(text))
  THEN [ before EXCEPT !.inTransactionTable = TRUE ]
  ELSE IF ~before.inTransactionTable THEN before
  ELSE [ before EXCEPT !.transactions = before.transactions \o rowTransactions(rows[n], text) ]

\* the state of parsePropertyPage after the first n rows of a page read alone
RECURSIVE parsedAlone(_, _)
parsedAlone(rows, n) ==
  IF n = 0 THEN freshPage
  ELSE afterRow(parsedAlone(rows, n - 1), rows, n, rowToText(rows[n]))

\* the page whose rows have all been read
pageRead == pc = "rows" /\ r > Len(allPageRows[i])

ownRowsOnly(rows) ==
  /\ [ inTransactionTable |-> inTransactionTable, cashSummary |-> cashSummary,
       transactions |-> transactions ] = parsedAlone(rows, Len(rows))
  /\ address = extractPropertyAddress(rows)
  /\ (\A j \in 1..Len(rows) : ~switchesOn(rows, j)) => transactions = <<>>

\* C28: the table mode, the cash summary, the address and the transactions
\* start afresh with every page, so what a page yields is what its rows
\* yield when read alone, and nothing for a page without a table header row,
\* whatever the pages before it held; reading a page leaves the rows unchanged.
C28_PageStateIsLocal ==
  /\ [](pageRead => ownRowsOnly(allPageRows[i]))
  /\ [][pc = "rows" => allPageRows' = allPageRows]_vars

C28_NoHeaderAfterPageWithHeader ==
  /\ pageRead
  /\ i = 3
  /\ Len(properties) = 1
  /\ Len(properties[1].transactions) > 0
  /\ DOMAIN properties[1].cashSummary # {}
  /\ \A j \in 1..Len(allPageRows[3]) : ~switchesOn(allPageRows[3], j)
  /\ \E j \in 1..Len(allPageRows[3]) : rowTransactions(allPageRows[3][j], rowToText(allPageRows[3][j])) # <<>>
  /\ transactions = <<>>

\* row n of rows passes the admission test, read as the claim words it
admitted(rows, n, text) ==
  /\ \E h \in 1..(n - 1) : switchesOn(rows, h)
  /\ Len(rows[n]) >= 3
  /\ ~includes(toLowerCase(text), <<"p","a","g","e"," ">>)
  /\ ~includes(toLowerCase(text), <<"t","o","t","a","l">>)
  /\ parseDate(rows[n][1].text) # <<>>

\* C29: every transaction comes from a row below the table header of its page
\* that has at least 3 fragments, whose text contains neither 'page ' nor
\* 'total' and whose first fragment parses as a date; so its date is that
\* date and never empty.
C29_AdmittedRowsOnly ==
  pc = "rows" =>
    /\ \A k \in 1..Len(transactions) :
         /\ admitted(pageRows, txRows[k], rowToText(pageRows[txRows[k]]))
         /\ transactions[k].date = parseDate(pageRows[txRows[k]][1].text)
         /\ transactions[k].date # <<>>
    /\ \A n \in 1..Len(pageRows) :
         isRawDate(pageRows[n][1].text) => parseDate(pageRows[n][1].text) # <<>>

C29_DashedDateAdmitted ==
  /\ pc = "rows"
  /\ Len(transactions) = 1
  /\ pageRows[txRows[1]][1].text = <<"1","-","5","-","2","6">>
  /\ ~isRawDate(pageRows[txRows[1]][1].text)
  /\ transactions[1].date = <<"2","0","2","6","-","0","1","-","0","5">>

\* the sum of cashIn (kind "in") or cashOut (kind "out") over all of txs
RECURSIVE cashSum(_, _)
cashSum(txs, kind) ==
  IF txs = <<>> THEN 0
  ELSE (IF kind = "in" THEN Head(txs).cashIn ELSE Head(txs).cashOut) + cashSum(Tail(txs), kind)

\* the sum of cashIn over the transactions of txs that have no cashOut
RECURSIVE cashInAlone(_)
cashInAlone(txs) ==
  IF txs = <<>> THEN 0
  ELSE (IF Head(txs).cashOut = 0 THEN Head(txs).cashIn ELSE 0) + cashInAlone(Tail(txs))

conserved(summary, txs) ==
  /\ summary.totalExpenses + summary.totalDistributions = cashSum(txs, "out")
  /\ summary.totalIncome <= cashSum(txs, "in")
  /\ summary.totalIncome = cashInAlone(txs)
  /\ \A k \in 1..Len(txs) :
       txs[k].cashOut > 0 => (txs[k].isExpense /\ ~txs[k].isDistribution) # txs[k].isDistribution

\* C30: in every ParseResult totalExpenses + totalDistributions is the sum of
\* cashOut over allTransactions, each transaction with cashOut > 0 counting
\* in exactly one of the two; totalIncome is at most the sum of cashIn, the
\* cashIn of a transaction that also has cashOut > 0 counting in no total.
C30_CashOutConserved ==
  pc = "done" => conserved(result.summary, result.allTransactions)

C30_BothColumnsAndDistribution ==
  /\ pc = "done"
  /\ \E k \in 1..Len(result.allTransactions) :
       /\ result.allTransactions[k].cashIn > 0
       /\ result.allTransactions[k].cashOut > 0
       /\ ~result.allTransactions[k].isDistribution
  /\ \E k \in 1..Len(result.allTransactions) : result.allTransactions[k].isDistribution
  /\ result.summary.totalIncome < cashSum(result.allTransactions, "in")
====
